---- MODULE Spec2Model ----
(***************************************************************************)
(* Model of the vector-database service of STUDILO:                        *)
(*   services/vectordb/controllers/embeddingController.js                  *)
(*     - the request handlers (uploadDocument, processText,                *)
(*       batchEmbeddings, deleteDocument) and their helpers (chunkText,    *)
(*       preprocessText, getCachedEmbedding, setCachedEmbedding);          *)
(*     - the EmbeddingProvider class (storeDocument, deleteDocument,       *)
(*       getDocument, searchSimilar, cosineSimilarity) over its SQLite     *)
(*       tables documents / document_chunks.                               *)
(* Node runs the handlers on one thread: a handler runs without            *)
(* interruption from one await to the next, so every action below is the   *)
(* code between two awaits.                                                *)
(***************************************************************************)
EXTENDS Integers, Sequences, FiniteSets, TLC

VARIABLES
  env,              \* process.env: the configuration read by the helpers
  documents,        \* table documents: set of rows (id is the primary key)
  document_chunks,  \* table document_chunks: rows in rowid (insertion) order
  embeddingCache,   \* the Map embeddingCache, entries in insertion order
  now,              \* Date.now()
  reqs,             \* per request slot: position of the handler and its locals
  last,             \* the response / return value of the last finished call
  providers,        \* LLMProvider.providers: which clients are configured
  providerHealth,   \* LLMProvider.providerHealth: available and errorCount
  maxRetries,       \* LLMProvider.maxRetries
  completion        \* the generateCompletion call in flight: position and locals

\* the fields of the LLMProvider instance and its call in flight
llmVars == <<providers, providerHealth, maxRetries, completion>>

vars == <<env, documents, document_chunks, embeddingCache, now, reqs, last,
          providers, providerHealth, maxRetries, completion>>

\* ---------------------------------------------------------------- bounds
MaxTextLen == 2      \* longest text handed to the service
NumProcs == 2        \* request slots that can be in flight together
NumDocIds == 2       \* distinct document ids (uuids) in use at one time
MaxTime == 1         \* last clock value
MaxBatch == 1        \* texts in one batch request
MaxChunkTextLen == 4 \* longest text of the direct chunkText calls
MaxRetriesLimit == 3 \* largest configured maxRetries
MaxErrorCount == 3   \* largest errorCount the health checks count up to

\* ------------------------------------------------- configuration values
MIN_TEXT_LENGTH == 2   \* process.env.MIN_TEXT_LENGTH (default '50')
MAX_CHUNK_SIZE == 2    \* process.env.MAX_CHUNK_SIZE (default '1000')
CHUNK_OVERLAP == 1     \* process.env.CHUNK_OVERLAP (default '200')
DefaultOverlap == 1    \* chunkText's default overlap parameter (200)
ReqChunkMin == 1       \* schemas.textEmbedding chunkSize min (100)
ReqChunkMax == 2       \* schemas.textEmbedding chunkSize max (2000)
BatchTextMin == 2      \* schemas.batchEmbedding item min length (10)
CACHE_MAX_SIZE == 2    \* process.env.CACHE_MAX_SIZE (default 1000)
CACHE_TTL == 1         \* process.env.CACHE_TTL (default 3600)
CacheKeyLen == 2       \* characters of a text that decide its cache key
DefaultLimit == 10           \* semanticSearch: limit || 10
ExamDefaultLimit == 15       \* findExamContent: limit || 15
SIMILARITY_THRESHOLD == 75   \* process.env.SIMILARITY_THRESHOLD (default '0.75'), in hundredths
ExamThreshold == 70          \* findExamContent: threshold 0.7, in hundredths
MAX_SEARCH_RESULTS == 10     \* process.env.MAX_SEARCH_RESULTS (default 10)
DefaultPage == 1             \* getDocuments: parseInt(req.query.page) || 1
DefaultListLimit == 20       \* getDocuments: parseInt(req.query.limit) || 20
DefaultMaxRetries == 3       \* LLMProvider: parseInt(process.env.MAX_RETRIES) || 3
UnavailableErrorCount == 3   \* checkProvidersHealth: available = errorCount < 3

None == "none"

Chars == {"a", " "}
Procs == 1 .. NumProcs
DocIds == 1 .. NumDocIds
Subjects == {"math", "bio"}
\* req.body.subject of the ingestion requests
RequestSubjects == {"math"}

RECURSIVE SeqsUpTo(_)
SeqsUpTo(n) ==
  IF n = 0 THEN { <<>> }
  ELSE LET S == SeqsUpTo(n - 1)
       IN S \cup { Append(s, c) : s \in { t \in S : Len(t) = n - 1 }, c \in Chars }

\* every string over Chars of length 0 .. MaxTextLen
Texts == SeqsUpTo(MaxTextLen)

Min(a, b) == IF a < b THEN a ELSE b

\* ------------------------------------------------------ JavaScript values
JsString(s) == [type |-> "string", val |-> s]
JsUndefined == [type |-> "undefined", val |-> ""]
JsBoolean(b) == [type |-> "boolean", val |-> IF b THEN "true" ELSE "false"]

\* the ! operator: undefined and the empty string are falsy
JsNot(v) == JsBoolean(v.type = "undefined" \/ (v.type = "string" /\ v.val = ""))

\* the === operator: operands of different types are never equal
JsStrictEq(x, y) == x.type = y.type /\ x.val = y.val

\* values an environment flag can have
EnvFlagValues == { JsString("true"), JsString("false"), JsUndefined }

\* the configurations: both flags 'true', both 'false', both unset
EnvConfigs == { [CACHE_EMBEDDINGS |-> v, TEXT_PREPROCESSING |-> v] : v \in EnvFlagValues }

\* ------------------------------------------------------------ text helpers
RECURSIVE TrimLeft(_)
TrimLeft(s) == IF s # <<>> /\ Head(s) = " " THEN TrimLeft(Tail(s)) ELSE s

RECURSIVE TrimRight(_)
TrimRight(s) ==
  IF s # <<>> /\ s[Len(s)] = " " THEN TrimRight(SubSeq(s, 1, Len(s) - 1)) ELSE s

\* String.prototype.trim
Trim(s) == TrimRight(TrimLeft(s))

\* text.replace(/\s+/g, ' '): every run of whitespace becomes one space
RECURSIVE CollapseSpaces(_)
CollapseSpaces(s) ==
  IF Len(s) < 2 THEN s
  ELSE IF s[1] = " " /\ s[2] = " " THEN CollapseSpaces(Tail(s))
  ELSE <<s[1]>> \o CollapseSpaces(Tail(s))

\* text.slice(from, to) for 0 <= from (0-based, end exclusive, clipped)
Slice(s, from, to) == SubSeq(s, from + 1, Min(to, Len(s)))

\* preprocessText: the guard compares the boolean !flag with the string 'true'
preprocessText(text) ==
  IF JsStrictEq(JsNot(env.TEXT_PREPROCESSING), JsString("true"))
  THEN text
  ELSE Trim(CollapseSpaces(text))

\* chunkText never returns when the step is not positive and the text is not empty
chunkTextDiverges(text, chunkSize, overlap) ==
  Len(text) > 0 /\ chunkSize - overlap <= 0

\* (variant) a chunker that also emits the windows that are blank
RECURSIVE chunkTextFromKeepBlank(_, _, _, _)
chunkTextFromKeepBlank(text, i, chunkSize, overlap) ==
  IF ~(i < Len(text)) THEN <<>>
  ELSE LET chunk == Slice(text, i, i + chunkSize)
           rest == chunkTextFromKeepBlank(text, i + (chunkSize - overlap), chunkSize, overlap)
       IN <<[text |-> Trim(chunk), startIndex |-> i,
             endIndex |-> Min(i + chunkSize, Len(text))]>> \o rest

\* (variant) a chunker that reports the offset of the trimmed chunk text
RECURSIVE chunkTextFromTrimmed(_, _, _, _)
chunkTextFromTrimmed(text, i, chunkSize, overlap) ==
  IF ~(i < Len(text)) THEN <<>>
  ELSE LET chunk == Slice(text, i, i + chunkSize)
           rest == chunkTextFromTrimmed(text, i + (chunkSize - overlap), chunkSize, overlap)
       IN IF Len(Trim(chunk)) > 0
          THEN <<[text |-> Trim(chunk),
                  startIndex |-> i + (Len(chunk) - Len(TrimLeft(chunk))),
                  endIndex |-> Min(i + chunkSize, Len(text))]>> \o rest
          ELSE rest

RECURSIVE chunkTextFrom(_, _, _, _)
chunkTextFrom(text, i, chunkSize, overlap) ==
  IF ~(i < Len(text)) THEN <<>>
  ELSE LET chunk == Slice(text, i, i + chunkSize)
           rest == chunkTextFrom(text, i + (chunkSize - overlap), chunkSize, overlap)
       IN IF Len(Trim(chunk)) > 0
          THEN <<[text |-> Trim(chunk), startIndex |-> i,
                  endIndex |-> Min(i + chunkSize, Len(text))]>> \o rest
          ELSE rest

\* chunkText(text, chunkSize, overlap), for a call that returns
chunkText(text, chunkSize, overlap) == chunkTextFrom(text, 0, chunkSize, overlap)

\* ------------------------------------------------- the embedding generator
RECURSIVE CountA(_)
CountA(s) == IF s = <<>> THEN 0 ELSE (IF Head(s) = "a" THEN 1 ELSE 0) + CountA(Tail(s))

\* the external model: a fixed vector for every input text
ModelVector(t) == <<4 * CountA(t), 2 * Len(t) + 3>>

\* response.data[0].embedding for input text.trim()
openaiEmbedding(text) == ModelVector(Trim(text))

\* generateEmbedding rejects before the network call: no client, or blank text
generateEmbeddingRejects(text) == Len(Trim(text)) = 0

\* ------------------------------------------------------------------- cache
\* Buffer.from(text).toString('base64').slice(0, 50): decided by a prefix of text
cacheKey(text) == SubSeq(text, 1, Min(CacheKeyLen, Len(text)))

CacheIndex(cache, key) ==
  IF \E i \in 1 .. Len(cache) : cache[i].key = key
  THEN CHOOSE i \in 1 .. Len(cache) : cache[i].key = key
  ELSE 0

\* the guard of both cache helpers: !process.env.CACHE_EMBEDDINGS === 'true'
cacheGuardReturns == JsStrictEq(JsNot(env.CACHE_EMBEDDINGS), JsString("true"))

\* the return values of getCachedEmbedding: null, or the cached vector
CacheMiss == [found |-> FALSE, embedding |-> <<>>]
CacheHit(v) == [found |-> TRUE, embedding |-> v]

\* (variant) an entry whose age equals the time-to-live is still served
getCachedEmbeddingInclusive(cache, text, time) ==
  IF cacheGuardReturns THEN CacheMiss
  ELSE LET i == CacheIndex(cache, cacheKey(text))
       IN IF i # 0 /\ (time - cache[i].timestamp) <= CACHE_TTL
          THEN CacheHit(cache[i].embedding)
          ELSE CacheMiss

\* getCachedEmbedding(text)
getCachedEmbedding(cache, text, time) ==
  IF cacheGuardReturns THEN CacheMiss
  ELSE LET i == CacheIndex(cache, cacheKey(text))
       IN IF i # 0 /\ (time - cache[i].timestamp) < CACHE_TTL
          THEN CacheHit(cache[i].embedding)
          ELSE CacheMiss

\* Map.prototype.set: an existing key keeps its position, a new one goes last
MapSet(cache, key, value) ==
  LET i == CacheIndex(cache, key)
      e == [key |-> key, embedding |-> value.embedding, timestamp |-> value.timestamp]
  IN IF i # 0 THEN [cache EXCEPT ![i] = e] ELSE Append(cache, e)

\* (variant) no eviction
evictNever(cache) == cache

\* (variant) at capacity the key inserted last is deleted
evictNewest(cache) ==
  IF Len(cache) >= CACHE_MAX_SIZE /\ cache # <<>>
  THEN SubSeq(cache, 1, Len(cache) - 1) ELSE cache

\* the eviction step: at capacity the first key in insertion order is deleted
evictIfFull(cache) ==
  IF Len(cache) >= CACHE_MAX_SIZE /\ cache # <<>> THEN Tail(cache) ELSE cache

\* setCachedEmbedding(text, embedding): the cache afterwards
setCachedEmbedding(cache, text, embedding, time) ==
  IF cacheGuardReturns THEN cache
  ELSE MapSet(evictIfFull(cache), cacheKey(text),
              [embedding |-> embedding, timestamp |-> time])

\* ------------------------------------------------------- the SQLite store
\* new Float32Array(embedding): a component is rounded to the nearest value
\* the narrower format has; here the narrower format holds the even numbers
toFloat32(x) == 2 * (x \div 2)
Float32Array(v) == [i \in 1 .. Len(v) |-> toFloat32(v[i])]

\* the database: both tables
Db(docs, chunks) == [documents |-> docs, document_chunks |-> chunks]

\* the chunk rows of document id / of every other document, in rowid order
chunksOf(chunks, id) == LET Keep(r) == r.document_id = id IN SelectSeq(chunks, Keep)
chunksNotOf(chunks, id) == LET Keep(r) == r.document_id # id IN SelectSeq(chunks, Keep)

\* (variant) the foreign key without its cascade
cascadeDeleteNone(chunks, id) == chunks

\* FOREIGN KEY (document_id) REFERENCES documents (id) ON DELETE CASCADE,
\* enforced by the connection opened with new Database(dbPath)
cascadeDelete(chunks, id) == chunksNotOf(chunks, id)

\* the value insertDoc.run binds for doc.key: a property documentData does
\* not have reads as undefined, which is bound as NULL
bound(doc, key) == IF key \in DOMAIN doc THEN doc[key] ELSE None

\* INSERT OR REPLACE INTO documents: a row with the same primary key is
\* deleted first (its chunk rows go with it), then the new row is inserted
insertDoc(db, doc, time) ==
  LET row == [id |-> doc.id, title |-> bound(doc, "title"),
              subject |-> doc.subject, author |-> bound(doc, "author"),
              difficulty |-> bound(doc, "difficulty"), type |-> bound(doc, "type"),
              user_id |-> bound(doc, "userId"),
              extracted_text |-> doc.extractedText,
              embedding_model |-> bound(doc, "embeddingModel"),
              created_at |-> bound(doc, "createdAt"), updated_at |-> time]
      old == { r \in db.documents : r.id = doc.id }
  IN Db((db.documents \ old) \cup {row},
        IF old # {} THEN cascadeDelete(db.document_chunks, doc.id)
        ELSE db.document_chunks)

\* the row insertChunk.run(...) writes for a chunk of documentData
chunkRow(docId, chunk) ==
  [document_id |-> docId, chunk_index |-> chunk.chunkIndex,
   text |-> chunk.text, embedding |-> Float32Array(chunk.embedding),
   start_index |-> chunk.startIndex, end_index |-> chunk.endIndex]

\* INSERT INTO document_chunks
insertChunk(db, docId, chunk) ==
  Db(db.documents, Append(db.document_chunks, chunkRow(docId, chunk)))

\* the body of the storeDocument transaction after its first n statements
\* (statement 1 inserts the document row, statement k + 1 inserts chunk k)
RECURSIVE storeStatements(_, _, _, _)
storeStatements(db, doc, time, n) ==
  IF n = 0 THEN db
  ELSE IF n = 1 THEN insertDoc(db, doc, time)
  ELSE insertChunk(storeStatements(db, doc, time, n - 1), doc.id, doc.chunks[n - 1])

\* (variant) a throw that leaves the statements already run in place
rollbackKeepsPartial(before, partial) == partial

\* db.transaction(fn): a throw inside fn rolls every statement of fn back
rollback(before, partial) == before

\* (variant) storeDocument without db.transaction
storeDocumentNoTransaction(db, doc, time, failAt) ==
  IF failAt = 0
  THEN [db |-> storeStatements(db, doc, time, Len(doc.chunks) + 1), threw |-> FALSE]
  ELSE [db |-> storeStatements(db, doc, time, failAt - 1), threw |-> TRUE]

\* storeDocument(documentData); failAt = 0: no statement fails, failAt = k:
\* statement k throws.  The result is the database and whether the call threw.
storeDocument(db, doc, time, failAt) ==
  IF failAt = 0
  THEN [db |-> storeStatements(db, doc, time, Len(doc.chunks) + 1), threw |-> FALSE]
  ELSE [db |-> rollback(db, storeStatements(db, doc, time, failAt - 1)), threw |-> TRUE]

\* the body of the deleteDocument transaction after its first n statements:
\* DELETE FROM document_chunks WHERE document_id = ?, then
\* DELETE FROM documents WHERE id = ? (with the cascade of the foreign key)
deleteStatements(db, id, n) ==
  IF n = 0 THEN db
  ELSE IF n = 1 THEN Db(db.documents, chunksNotOf(db.document_chunks, id))
  ELSE Db({ r \in db.documents : r.id # id },
          cascadeDelete(chunksNotOf(db.document_chunks, id), id))

\* (variant) deleteDocument without db.transaction
deleteDocumentNoTransaction(db, id, failAt) ==
  IF failAt = 0
  THEN [db |-> deleteStatements(db, id, 2), threw |-> FALSE,
        result |-> deleteStatements(db, id, 2).documents # db.documents]
  ELSE [db |-> deleteStatements(db, id, failAt - 1), threw |-> TRUE, result |-> FALSE]

\* (variant) deleteDocument that reports success whatever docResult.changes is
deleteDocumentReportsTrue(db, id, failAt) ==
  IF failAt = 0
  THEN [db |-> deleteStatements(db, id, 2), threw |-> FALSE, result |-> TRUE]
  ELSE [db |-> rollback(db, deleteStatements(db, id, failAt - 1)), threw |-> TRUE,
        result |-> FALSE]

\* deleteDocument(id): the database, whether it threw, and the return value
\* result.documentsDeleted > 0
deleteDocument(db, id, failAt) ==
  IF failAt = 0
  THEN [db |-> deleteStatements(db, id, 2), threw |-> FALSE,
        result |-> deleteStatements(db, id, 2).documents # db.documents]
  ELSE [db |-> rollback(db, deleteStatements(db, id, failAt - 1)), threw |-> TRUE,
        result |-> FALSE]

\* (variant) ORDER BY chunk_index DESC
RECURSIVE insertByIndexDescending(_, _)
insertByIndexDescending(sorted, r) ==
  IF sorted = <<>> THEN <<r>>
  ELSE IF r.chunk_index > Head(sorted).chunk_index THEN <<r>> \o sorted
  ELSE <<Head(sorted)>> \o insertByIndexDescending(Tail(sorted), r)

\* ORDER BY chunk_index: insertion of a row into an ordered sequence
RECURSIVE insertByIndex(_, _)
insertByIndex(sorted, r) ==
  IF sorted = <<>> THEN <<r>>
  ELSE IF r.chunk_index < Head(sorted).chunk_index THEN <<r>> \o sorted
  ELSE <<Head(sorted)>> \o insertByIndex(Tail(sorted), r)

RECURSIVE orderByChunkIndex(_)
orderByChunkIndex(rows) ==
  IF rows = <<>> THEN <<>>
  ELSE insertByIndex(orderByChunkIndex(SubSeq(rows, 1, Len(rows) - 1)), rows[Len(rows)])

\* getDocument(id, {includeChunks: true}): found, and the chunks returned
getDocument(db, id) ==
  IF ~ \E r \in db.documents : r.id = id
  THEN [found |-> FALSE, chunks |-> <<>>]
  ELSE [found |-> TRUE,
        chunks |-> LET rows == orderByChunkIndex(chunksOf(db.document_chunks, id))
                   IN [i \in 1 .. Len(rows) |->
                         [chunk_index |-> rows[i].chunk_index, text |-> rows[i].text,
                          start_index |-> rows[i].start_index,
                          end_index |-> rows[i].end_index]]]

\* ------------------------------------------------------ similarity search
\* cosineSimilarity(vecA, vecB) throws when the lengths differ
cosineSimilarityThrows(vecA, vecB) == Len(vecA) # Len(vecB)

RECURSIVE dotProduct(_, _)
dotProduct(a, b) ==
  IF a = <<>> THEN 0 ELSE Head(a) * Head(b) + dotProduct(Tail(a), Tail(b))

\* the similarity dot / (sqrt(normA) * sqrt(normB)) as the exact pair
\* (dot, normA * normB); a zero norm gives the similarity 0
cosineSimilarity(vecA, vecB) ==
  LET nn == dotProduct(vecA, vecA) * dotProduct(vecB, vecB)
  IN IF nn = 0 THEN [dot |-> 0, nn |-> 1]
     ELSE [dot |-> dotProduct(vecA, vecB), nn |-> nn]

\* x >= y for two similarities: v |-> sign(v) * v * v is increasing
signedSquare(x) == IF x.dot < 0 THEN 0 - x.dot * x.dot ELSE x.dot * x.dot
simGE(x, y) == signedSquare(x) * y.nn >= signedSquare(y) * x.nn

\* a threshold given in hundredths, as a similarity
thresholdSim(t) == [dot |-> t, nn |-> 10000]

\* the WHERE clause searchSimilar builds from filters: a filter that is not
\* supplied (None) or is an empty string is skipped
searchColumn ==
  [subject |-> "subject", difficulty |-> "difficulty", type |-> "type",
   author |-> "author", userId |-> "user_id"]
JsTruthy(v) == v # None /\ v # ""
matchesFilters(doc, filters) ==
  \A key \in DOMAIN filters \cap DOMAIN searchColumn :
    JsTruthy(filters[key]) => doc[searchColumn[key]] = filters[key]

\* the rows of the JOIN, ORDER BY c.document_id, c.chunk_index
RECURSIVE joinedRows(_, _, _)
joinedRows(db, filters, id) ==
  IF id > NumDocIds THEN <<>>
  ELSE (IF \E d \in db.documents : d.id = id /\ matchesFilters(d, filters)
        THEN orderByChunkIndex(chunksOf(db.document_chunks, id))
        ELSE <<>>) \o joinedRows(db, filters, id + 1)

\* (variant) a sort that puts an element before the elements equal to it
RECURSIVE insertBySimilarityTiesFirst(_, _)
insertBySimilarityTiesFirst(sorted, r) ==
  IF sorted = <<>> THEN <<r>>
  ELSE IF simGE(r.similarity, Head(sorted).similarity) THEN <<r>> \o sorted
  ELSE <<Head(sorted)>> \o insertBySimilarityTiesFirst(Tail(sorted), r)

\* results.sort((a, b) => b.similarity - a.similarity): stable, descending
RECURSIVE insertBySimilarity(_, _)
insertBySimilarity(sorted, r) ==
  IF sorted = <<>> THEN <<r>>
  ELSE IF simGE(Head(sorted).similarity, r.similarity)
  THEN <<Head(sorted)>> \o insertBySimilarity(Tail(sorted), r)
  ELSE <<r>> \o sorted

RECURSIVE sortBySimilarity(_)
sortBySimilarity(rs) ==
  IF rs = <<>> THEN <<>>
  ELSE insertBySimilarity(sortBySimilarity(SubSeq(rs, 1, Len(rs) - 1)), rs[Len(rs)])

\* results.slice(0, limit)
sliceLimit(rs, limit) ==
  IF limit >= 0 THEN SubSeq(rs, 1, Min(limit, Len(rs)))
  ELSE SubSeq(rs, 1, Len(rs) + limit)

\* (variant) a search that stops at the first row of another dimension and
\* returns what it has scored so far
searchSimilarPartial(db, embedding, limit, threshold, filters) ==
  LET rows == joinedRows(db, filters, 1)
      bad == { i \in 1 .. Len(rows) : cosineSimilarityThrows(embedding, rows[i].embedding) }
      n == IF bad = {} THEN Len(rows)
           ELSE (CHOOSE i \in bad : \A j \in bad : i <= j) - 1
      scored == [i \in 1 .. n |->
                   [documentId |-> rows[i].document_id,
                    chunkIndex |-> rows[i].chunk_index,
                    text |-> rows[i].text,
                    similarity |-> cosineSimilarity(embedding, rows[i].embedding)]]
      Keep(r) == simGE(r.similarity, thresholdSim(threshold))
  IN [threw |-> FALSE,
      results |-> sliceLimit(sortBySimilarity(SelectSeq(scored, Keep)), limit)]

\* searchSimilar({embedding, limit, threshold, filters})
searchSimilar(db, embedding, limit, threshold, filters) ==
  LET rows == joinedRows(db, filters, 1)
      scored == [i \in 1 .. Len(rows) |->
                   [documentId |-> rows[i].document_id,
                    chunkIndex |-> rows[i].chunk_index,
                    text |-> rows[i].text,
                    similarity |-> cosineSimilarity(embedding, rows[i].embedding)]]
      Keep(r) == simGE(r.similarity, thresholdSim(threshold))
  IN IF \E i \in 1 .. Len(rows) : cosineSimilarityThrows(embedding, rows[i].embedding)
     THEN [threw |-> TRUE, results |-> <<>>]
     ELSE [threw |-> FALSE,
           results |-> sliceLimit(sortBySimilarity(SelectSeq(scored, Keep)), limit)]

\* ------------------------------------------------------- the LLM provider
ProviderNames == {"openai", "anthropic"}

\* this.modelMapping[model].provider (None: the model is not mapped)
modelMapping(model) ==
  IF model \in {"gpt-4", "gpt-3.5-turbo"} THEN "openai"
  ELSE IF model \in {"claude-3", "claude-3-haiku"} THEN "anthropic"
  ELSE None

\* process.env.DEFAULT_LLM_PROVIDER || 'openai' and
\* process.env.FALLBACK_LLM_PROVIDER || 'anthropic', neither variable set
defaultProvider == "openai"
fallbackProvider == "anthropic"

\* initializeProviders: a provider is available when its key is configured
initializeProviders(clients) ==
  [n \in ProviderNames |-> [available |-> clients[n], errorCount |-> 0]]

\* checkProvidersHealth, the test call of provider n succeeded / failed
healthCheckOk(health, n) ==
  [health EXCEPT ![n] = [available |-> TRUE, errorCount |-> 0]]
healthCheckFailed(health, n) ==
  [health EXCEPT ![n] = [available |-> @.errorCount + 1 < UnavailableErrorCount,
                         errorCount |-> @.errorCount + 1]]

\* Object.keys(this.providerHealth) sorted by errorCount (stable): its head
leastErrors(health) ==
  IF health["openai"].errorCount <= health["anthropic"].errorCount
  THEN "openai" ELSE "anthropic"

Selected(provider) == [threw |-> FALSE, provider |-> provider]

\* selectBestProvider(requestedModel)
selectBestProvider(clients, health, requestedModel) ==
  IF requestedModel # None /\ modelMapping(requestedModel) # None
     /\ health[modelMapping(requestedModel)].available
  THEN Selected(modelMapping(requestedModel))
  ELSE IF health[defaultProvider].available THEN Selected(defaultProvider)
  ELSE IF health[fallbackProvider].available THEN Selected(fallbackProvider)
  ELSE IF clients[leastErrors(health)] THEN Selected(leastErrors(health))
  ELSE [threw |-> TRUE, provider |-> None]

\* selectedProvider === 'openai' ? 'anthropic' : 'openai'
otherProvider(provider) == IF provider = "openai" THEN "anthropic" ELSE "openai"

\* no generateCompletion call is in flight
NoCompletion ==
  [pc |-> "idle", selected |-> None, attempt |-> 0, selectedCalls |-> 0,
   selectedFailed |-> 0, fallbackCalls |-> 0, otherAtStart |-> FALSE]

\* (variant) the fallback is tried after every failed attempt but the last
fallbackDueEveryAttempt(attempt, retries) == attempt < retries

\* if (attempt === this.maxRetries - 1), inside if (attempt < this.maxRetries)
fallbackDue(attempt, retries) == attempt < retries /\ attempt = retries - 1

\* ------------------------------------------------------ listing documents
\* the columns of the documents table that the model keeps
documentColumns ==
  {"id", "title", "subject", "author", "difficulty", "type", "user_id",
   "extracted_text", "embedding_model", "created_at", "updated_at"}

\* the columns getDocuments selects
listedColumns == documentColumns \ {"extracted_text"}

\* req.query of GET /documents as the handler reads it: the five filters
\* (None: the parameter is absent)
ListFilter(subject, author, type, difficulty, userId) ==
  [subject |-> subject, author |-> author, type |-> type,
   difficulty |-> difficulty, userId |-> userId]

\* the keys left after the handler has deleted the undefined ones
suppliedKeys(filters) == { key \in DOMAIN filters : filters[key] # None }

\* conditions.push(`${key} = ?`): the key is used as the column name, and
\* preparing a statement that names a column the table does not have throws
whereClauseThrows(filters) == \E key \in suppliedKeys(filters) : key \notin documentColumns

whereClause(doc, filters) ==
  \A key \in suppliedKeys(filters) : doc[key] = filters[key]

\* ORDER BY created_at DESC: the orders of rows with equal created_at are
\* left open by SQL
descendingOrders(rows) ==
  LET n == Cardinality(rows)
  IN { s \in [1 .. n -> rows] :
         /\ \A i, j \in 1 .. n : i # j => s[i] # s[j]
         /\ \A i \in 1 .. n - 1 : s[i].created_at >= s[i + 1].created_at }

\* LIMIT ? OFFSET ?: a negative LIMIT is no limit, a negative OFFSET is 0
sqlLimitOffset(rows, limit, offset) ==
  LET from == IF offset < 0 THEN 0 ELSE offset
      to == IF limit < 0 THEN Len(rows) ELSE Min(from + limit, Len(rows))
  IN SubSeq(rows, from + 1, to)

\* (variant) an offset that skips the requested page as well
listOffsetSkipsPage(page, limit) == page * limit

\* const offset = (page - 1) * limit
listOffset(page, limit) == (page - 1) * limit

\* the outcomes of EmbeddingProvider.getDocuments({page, limit, filters})
getDocumentsOutcomes(db, page, limit, filters) ==
  IF whereClauseThrows(filters)
  THEN { [threw |-> TRUE, items |-> <<>>, total |-> 0] }
  ELSE LET matching == { d \in db.documents : whereClause(d, filters) }
       IN { [threw |-> FALSE,
             items |-> LET page_ == sqlLimitOffset(order, limit, listOffset(page, limit))
                       IN [k \in 1 .. Len(page_) |->
                             [c \in listedColumns |-> page_[k][c]]],
             total |-> Cardinality(matching)] : order \in descendingOrders(matching) }

\* a GET /documents request: page and limit as parseInt reads them
ListRequest(page, limit, filters) == [page |-> page, limit |-> limit, filters |-> filters]

\* what the getDocuments handler answers
ListResponse(req, status, items, total) ==
  [op |-> "list", request |-> req, status |-> status, items |-> items, total |-> total]

\* the getDocuments handler: its answers to req
getDocumentsResponses(db, req) ==
  LET page == IF req.page # 0 THEN req.page ELSE DefaultPage
      limit == IF req.limit # 0 THEN req.limit ELSE DefaultListLimit
  IN { IF r.threw THEN ListResponse(req, 500, <<>>, 0)
       ELSE ListResponse(req, 200, r.items, r.total) :
       r \in getDocumentsOutcomes(db, page, limit, req.filters) }

\* a search request: query text, optional limit, optional threshold (in
\* hundredths) and the subject filter (None: no filter)
SearchRequest(query, hasLimit, limit, hasThreshold, threshold, subject) ==
  [query |-> query, hasLimit |-> hasLimit, limit |-> limit,
   hasThreshold |-> hasThreshold, threshold |-> threshold, subject |-> subject]

\* validate(schemas.semanticSearch): limit in 1 .. MAX_SEARCH_RESULTS,
\* threshold in 0 .. 1
semanticSearchInvalid(req) ==
  \/ req.hasLimit /\ (req.limit < 1 \/ req.limit > MAX_SEARCH_RESULTS)
  \/ req.hasThreshold /\ (req.threshold < 0 \/ req.threshold > 100)

\* limit || fallback: undefined and 0 are falsy
limitOr(req, fallback) == IF req.hasLimit /\ req.limit # 0 THEN req.limit ELSE fallback

\* threshold || parseFloat(process.env.SIMILARITY_THRESHOLD || '0.75')
thresholdOr(req) ==
  IF req.hasThreshold /\ req.threshold # 0 THEN req.threshold ELSE SIMILARITY_THRESHOLD

SearchResponse(status, cause, results) ==
  [status |-> status, cause |-> cause, results |-> results]

\* formattedResults of semanticSearch
formatResults(rs) ==
  [i \in 1 .. Len(rs) |-> [documentId |-> rs[i].documentId, chunkIndex |-> rs[i].chunkIndex,
                            similarity |-> rs[i].similarity]]

\* semanticSearch behind its validation; generated: the generator answered
semanticSearch(db, req, generated) ==
  IF semanticSearchInvalid(req) THEN SearchResponse(400, "validation", <<>>)
  ELSE IF generateEmbeddingRejects(req.query) \/ ~generated
  THEN SearchResponse(500, "embedding", <<>>)
  ELSE LET s == searchSimilar(db, openaiEmbedding(req.query), limitOr(req, DefaultLimit),
                              thresholdOr(req), [subject |-> req.subject])
       IN IF s.threw THEN SearchResponse(500, "search", <<>>)
          ELSE SearchResponse(200, None, formatResults(s.results))

\* examQuery: the text built from the template (the request's fields, which
\* are part of it, are left out)
examQuery == <<"a", "b">>

\* findExamContent: req.body is not validated; the documents of the model
\* all have a type the type filter accepts, and no difficulty is asked for
findExamContent(db, req, generated) ==
  IF ~generated THEN SearchResponse(500, "embedding", <<>>)
  ELSE LET s == searchSimilar(db, openaiEmbedding(examQuery), limitOr(req, ExamDefaultLimit),
                              ExamThreshold, [subject |-> req.subject])
       IN IF s.threw THEN SearchResponse(500, "search", <<>>)
          ELSE SearchResponse(200, None, formatResults(s.results))

\* ---------------------------------------------------------------- state
Idle == [pc |-> "idle", kind |-> None, cleanText |-> <<>>, items |-> <<>>,
         i |-> 0, embs |-> <<>>]

\* what the last finished call returned: the handler or method (op), the HTTP
\* status, the stage that failed (cause), the document id and chunks it was
\* given, its boolean result, the statement of its transaction that threw
\* (failedAt, 0: none) and the number of chunk rows its document had before
\* the call (hadChunks, -1: the document was not there)
Outcome(op, status, cause, id, chunks, result, failedAt, hadChunks) ==
  [op |-> op, status |-> status, cause |-> cause, id |-> id, chunks |-> chunks,
   result |-> result, failedAt |-> failedAt, hadChunks |-> hadChunks]

NoCall == Outcome(None, 0, None, 0, <<>>, FALSE, 0, -1)

\* the chunk rows document id has, -1 when there is no such document
chunkCount(db, id) ==
  IF \E d \in db.documents : d.id = id THEN Len(chunksOf(db.document_chunks, id)) ELSE -1

\* the vector service: empty store, empty cache, no request in flight
InitVectorDb ==
  /\ documents = {}
  /\ document_chunks = <<>>
  /\ embeddingCache = <<>>
  /\ now = 0
  /\ reqs = [p \in Procs |-> Idle]
  /\ last = NoCall

\* new LLMProvider() in a deployment with the API keys in keys
LlmConstructed(keys, retries) ==
  /\ providers = [n \in ProviderNames |-> n \in keys]
  /\ providerHealth = initializeProviders([n \in ProviderNames |-> n \in keys])
  /\ maxRetries = retries
  /\ completion = NoCompletion

\* a deployment of the vector service; no API key of an LLM provider is set
Init ==
  /\ env \in EnvConfigs
  /\ InitVectorDb
  /\ LlmConstructed({}, DefaultMaxRetries)

\* a deployment with any choice of API keys and any MAX_RETRIES >= 1
InitLlm ==
  /\ env = [CACHE_EMBEDDINGS |-> JsUndefined, TEXT_PREPROCESSING |-> JsUndefined]
  /\ InitVectorDb
  /\ \E keys \in SUBSET ProviderNames, retries \in 1 .. MaxRetriesLimit :
       LlmConstructed(keys, retries)

\* the default deployment: no flag is set
InitUnset == Init /\ env = [CACHE_EMBEDDINGS |-> JsUndefined, TEXT_PREPROCESSING |-> JsUndefined]

\* a deployment with both flags set to 'true'
InitEnabled ==
  Init /\ env = [CACHE_EMBEDDINGS |-> JsString("true"), TEXT_PREPROCESSING |-> JsString("true")]

\* a handler stuck in a loop that never ends keeps the only thread
Running == \A p \in Procs : reqs[p].pc # "hung"

database == Db(documents, document_chunks)

\* res.json / res.status(..).json of handler op, which ends request p
Respond(p, op, status, cause, id, chunks, result, failedAt) ==
  /\ reqs' = [reqs EXCEPT ![p] = Idle]
  /\ last' = Outcome(op, status, cause, id, chunks, result, failedAt, -1)

\* (variant) an embedding loop that asks the generator whatever the cache holds
RECURSIVE embedLoopIgnoresCache(_, _, _, _, _, _)
embedLoopIgnoresCache(cache, kind, items, i, embs, time) ==
  IF i > Len(items) THEN [state |-> "finished", i |-> i, embs |-> embs]
  ELSE IF generateEmbeddingRejects(items[i].text)
  THEN (IF kind = "batch"
        THEN embedLoopIgnoresCache(cache, kind, items, i + 1,
                                   Append(embs, [ok |-> FALSE, embedding |-> <<>>]), time)
        ELSE [state |-> "threw", i |-> i, embs |-> embs])
  ELSE [state |-> "await", i |-> i, embs |-> embs]

\* the embedding loop of uploadDocument / processText / batchEmbeddings from
\* item i on, up to the next await of a network call ("await"), the end of
\* the loop ("finished") or an error that leaves the loop ("threw")
RECURSIVE embedLoop(_, _, _, _, _, _)
embedLoop(cache, kind, items, i, embs, time) ==
  IF i > Len(items) THEN [state |-> "finished", i |-> i, embs |-> embs]
  ELSE LET c == getCachedEmbedding(cache, items[i].text, time)
       IN IF c.found
          THEN embedLoop(cache, kind, items, i + 1,
                         Append(embs, [ok |-> TRUE, embedding |-> c.embedding]), time)
          ELSE IF generateEmbeddingRejects(items[i].text)
          THEN (IF kind = "batch"
                THEN embedLoop(cache, kind, items, i + 1,
                               Append(embs, [ok |-> FALSE, embedding |-> <<>>]), time)
                ELSE [state |-> "threw", i |-> i, embs |-> embs])
          ELSE [state |-> "await", i |-> i, embs |-> embs]

\* (variant) chunkIndex counted from one
documentDataIndexFromOne(id, subject, cleanText, items, embs) ==
  [id |-> id, subject |-> subject, extractedText |-> cleanText,
   chunks |-> [k \in 1 .. Len(items) |->
                 [chunkIndex |-> k, text |-> items[k].text,
                  embedding |-> embs[k].embedding,
                  startIndex |-> items[k].startIndex,
                  endIndex |-> items[k].endIndex]]]

\* documentData as uploadDocument and processText assemble it
documentData(id, subject, cleanText, items, embs) ==
  [id |-> id, subject |-> subject, extractedText |-> cleanText,
   chunks |-> [k \in 1 .. Len(items) |->
                 [chunkIndex |-> k - 1, text |-> items[k].text,
                  embedding |-> embs[k].embedding,
                  startIndex |-> items[k].startIndex,
                  endIndex |-> items[k].endIndex]]]

\* uuidv4(): an id no stored document has; which of the unused ids it is makes
\* no difference, so the least one stands for it (0: none is left)
UnusedIds == { id \in DocIds : \A d \in documents : d.id # id }
uuidv4 == IF UnusedIds = {} THEN 0 ELSE CHOOSE id \in UnusedIds : \A o \in UnusedIds : id <= o


\* (variant) a handler that answers before it has awaited the store write
StoreAndRespondBeforeWrite(p, kind, cleanText, items, embs) ==
  \E id \in DocIds, subject \in RequestSubjects, failAt \in 0 .. Len(items) + 1 :
    /\ id = uuidv4
    /\ UNCHANGED <<documents, document_chunks>>
    /\ Respond(p, kind, 200, None, id, <<>>, TRUE, failAt)

\* await embeddingProvider.storeDocument(documentData) and the response
StoreAndRespond(p, kind, cleanText, items, embs) ==
  \E id \in DocIds, subject \in RequestSubjects, failAt \in 0 .. Len(items) + 1 :
    /\ id = uuidv4
    /\ LET doc == documentData(id, subject, cleanText, items, embs)
           r == storeDocument(database, doc, now, failAt)
       IN /\ documents' = r.db.documents
          /\ document_chunks' = r.db.document_chunks
          /\ Respond(p, kind, IF r.threw THEN 500 ELSE 200,
                     IF r.threw THEN "store" ELSE None, id, <<>>, ~r.threw, failAt)

\* the results of batchEmbeddings
batchResults(items, embs) ==
  [k \in 1 .. Len(items) |->
     [index |-> k - 1, success |-> embs[k].ok]]

\* the handler of request p runs on from item i with the cache as given
Continue(p, kind, cleanText, items, i, embs, cache) ==
  LET l == embedLoop(cache, kind, items, i, embs, now)
  IN \/ /\ l.state = "await"
        /\ reqs' = [reqs EXCEPT ![p] = [pc |-> "embed", kind |-> kind,
                                        cleanText |-> cleanText, items |-> items,
                                        i |-> l.i, embs |-> l.embs]]
        /\ UNCHANGED <<documents, document_chunks, last>>
     \/ /\ l.state = "threw"
        /\ Respond(p, kind, 500, "embedding", 0, <<>>, FALSE, 0)
        /\ UNCHANGED <<documents, document_chunks>>
     \/ /\ l.state = "finished" /\ kind = "batch"
        /\ Respond(p, kind, 200, None, 0, batchResults(items, l.embs), TRUE, 0)
        /\ UNCHANGED <<documents, document_chunks>>
     \/ /\ l.state = "finished" /\ kind # "batch"
        /\ StoreAndRespond(p, kind, cleanText, items, l.embs)

\* --------------------------------------------------------------- actions
\* every ingestion in flight will need an id of its own
Ingesting == { p \in Procs : reqs[p].pc \in {"extract", "embed"} /\ reqs[p].kind # "batch" }
IdLeft == Cardinality(documents) + Cardinality(Ingesting) < NumDocIds

\* uploadDocument up to await extractTextFromFile(...)
UploadStart(p) ==
  /\ UNCHANGED llmVars
  /\ Running /\ reqs[p].pc = "idle" /\ IdLeft
  /\ reqs' = [reqs EXCEPT ![p] = [Idle EXCEPT !.pc = "extract", !.kind = "upload"]]
  /\ UNCHANGED <<env, documents, document_chunks, embeddingCache, now, last>>

\* uploadDocument from the end of the extraction to the next await
ExtractDone(p) ==
  /\ UNCHANGED llmVars
  /\ Running /\ reqs[p].pc = "extract"
  /\ UNCHANGED <<env, embeddingCache, now>>
  /\ \/ /\ Respond(p, "upload", 500, "extract", 0, <<>>, FALSE, 0)
        /\ UNCHANGED <<documents, document_chunks>>
     \/ \E extractedText \in Texts :
          IF extractedText = <<>> \/ Len(extractedText) < MIN_TEXT_LENGTH
          THEN /\ Respond(p, "upload", 400, "short", 0, <<>>, FALSE, 0)
               /\ UNCHANGED <<documents, document_chunks>>
          ELSE LET cleanText == preprocessText(extractedText)
               IN IF chunkTextDiverges(cleanText, MAX_CHUNK_SIZE, CHUNK_OVERLAP)
                  THEN /\ reqs' = [reqs EXCEPT ![p].pc = "hung"]
                       /\ UNCHANGED <<documents, document_chunks, last>>
                  ELSE Continue(p, "upload", cleanText,
                                chunkText(cleanText, MAX_CHUNK_SIZE, CHUNK_OVERLAP),
                                1, <<>>, embeddingCache)

\* validate(schemas.textEmbedding) and processText up to its first await;
\* chunkSize = 0 stands for a request without chunkSize
ProcessText(p) ==
  /\ UNCHANGED llmVars
  /\ Running /\ reqs[p].pc = "idle" /\ IdLeft
  /\ UNCHANGED <<env, embeddingCache, now>>
  /\ \E text \in Texts, chunkSize \in {0} \cup (ReqChunkMin .. ReqChunkMax) :
       IF Len(text) < MIN_TEXT_LENGTH
       THEN /\ Respond(p, "text", 400, "short", 0, <<>>, FALSE, 0)
            /\ UNCHANGED <<documents, document_chunks>>
       ELSE LET cleanText == preprocessText(text)
                actualChunkSize == IF chunkSize # 0 THEN chunkSize ELSE MAX_CHUNK_SIZE
            IN IF chunkTextDiverges(cleanText, actualChunkSize, DefaultOverlap)
               THEN /\ reqs' = [reqs EXCEPT ![p].pc = "hung"]
                    /\ UNCHANGED <<documents, document_chunks, last>>
               ELSE Continue(p, "text", cleanText,
                             chunkText(cleanText, actualChunkSize, DefaultOverlap),
                             1, <<>>, embeddingCache)

\* the batch requests validate(schemas.batchEmbedding) lets through
BatchInputs ==
  UNION { [1 .. n -> { t \in Texts : Len(t) >= BatchTextMin }] : n \in 1 .. MaxBatch }

\* batchEmbeddings up to its first await
BatchStart(p) ==
  /\ UNCHANGED llmVars
  /\ Running /\ reqs[p].pc = "idle"
  /\ UNCHANGED <<env, embeddingCache, now>>
  /\ \E texts \in BatchInputs :
       Continue(p, "batch", <<>>,
                [k \in 1 .. Len(texts) |->
                   [text |-> texts[k], startIndex |-> 0, endIndex |-> 0]],
                1, <<>>, embeddingCache)

\* a batch text longer than the longest text of an ingestion: its cache key
\* is the key of a shorter text
LongTexts == { [i \in 1 .. MaxTextLen + 1 |-> "a"] }

\* batchEmbeddings with one long text, up to its first await
BatchStartLong(p) ==
  /\ UNCHANGED llmVars
  /\ Running /\ reqs[p].pc = "idle"
  /\ UNCHANGED <<env, embeddingCache, now>>
  /\ \E text \in LongTexts :
       Continue(p, "batch", <<>>, <<[text |-> text, startIndex |-> 0, endIndex |-> 0]>>,
                1, <<>>, embeddingCache)

\* the arguments of the chunkText calls: every text of up to MaxChunkTextLen
\* characters with small window sizes and overlaps, and the call of the
\* documented example
ExampleText == [i \in 1 .. 250 |-> "A"]
ChunkCalls ==
  { [text |-> t, chunkSize |-> c, overlap |-> o] :
      t \in SeqsUpTo(MaxChunkTextLen), c \in 1 .. 3, o \in 0 .. 2 }
  \cup { [text |-> ExampleText, chunkSize |-> 100, overlap |-> 20] }

\* what a chunkText call is recorded as; chunkText has no throw statement
ChunkOutcome(call, returned, chunks) ==
  [op |-> "chunkText", text |-> call.text, chunkSize |-> call.chunkSize,
   overlap |-> call.overlap, returned |-> returned, threw |-> FALSE,
   chunks |-> chunks]

\* one call of chunkText(text, chunkSize, overlap)
ChunkText ==
  /\ UNCHANGED llmVars
  /\ UNCHANGED <<env, documents, document_chunks, embeddingCache, now, reqs>>
  /\ \E call \in ChunkCalls :
       last' = IF chunkTextDiverges(call.text, call.chunkSize, call.overlap)
               THEN ChunkOutcome(call, FALSE, <<>>)
               ELSE ChunkOutcome(call, TRUE,
                                 chunkText(call.text, call.chunkSize, call.overlap))

\* the awaited generateEmbedding call of request p returns or throws
EmbedDone(p) ==
  /\ UNCHANGED llmVars
  /\ Running /\ reqs[p].pc = "embed"
  /\ UNCHANGED <<env, now>>
  /\ LET r == reqs[p]
         text == r.items[r.i].text
     IN \/ LET embedding == openaiEmbedding(text)
               cache == setCachedEmbedding(embeddingCache, text, embedding, now)
           IN /\ embeddingCache' = cache
              /\ Continue(p, r.kind, r.cleanText, r.items, r.i + 1,
                          Append(r.embs, [ok |-> TRUE, embedding |-> embedding]),
                          cache)
        \/ /\ UNCHANGED embeddingCache
           /\ IF r.kind = "batch"
              THEN Continue(p, r.kind, r.cleanText, r.items, r.i + 1,
                            Append(r.embs, [ok |-> FALSE, embedding |-> <<>>]),
                            embeddingCache)
              ELSE /\ Respond(p, r.kind, 500, "embedding", 0, <<>>, FALSE, 0)
                   /\ UNCHANGED <<documents, document_chunks>>

\* the deleteDocument handler: DELETE /documents/:id
DeleteDocument(id) ==
  /\ UNCHANGED llmVars
  /\ Running
  /\ \E failAt \in 0 .. 2 :
       LET r == deleteDocument(database, id, failAt)
       IN /\ documents' = r.db.documents
          /\ document_chunks' = r.db.document_chunks
          /\ last' = Outcome("delete",
                              IF r.threw THEN 500 ELSE IF r.result THEN 200 ELSE 404,
                              IF r.threw THEN "store" ELSE None,
                              id, <<>>, r.result, failAt, chunkCount(database, id))
  /\ UNCHANGED <<env, embeddingCache, now, reqs>>

\* the clearCache handler
ClearCache ==
  /\ UNCHANGED llmVars
  /\ Running /\ embeddingCache # <<>>
  /\ embeddingCache' = <<>>
  /\ UNCHANGED <<env, documents, document_chunks, now, reqs, last>>

\* time passes
Tick ==
  /\ UNCHANGED llmVars
  /\ now < MaxTime
  /\ now' = now + 1
  /\ UNCHANGED <<env, documents, document_chunks, embeddingCache, reqs, last>>

\* a direct call of EmbeddingProvider.storeDocument with a document assembled
\* as the handlers assemble it, under an id the caller chooses
StoreDocument(id) ==
  /\ UNCHANGED llmVars
  /\ Running
  /\ \E cleanText \in { preprocessText(t) : t \in Texts }, subject \in Subjects :
       LET items == chunkText(cleanText, MAX_CHUNK_SIZE, CHUNK_OVERLAP)
           embs == [k \in 1 .. Len(items) |->
                      [ok |-> TRUE, embedding |-> openaiEmbedding(items[k].text)]]
           doc == documentData(id, subject, cleanText, items, embs)
       IN \E failAt \in 0 .. Len(items) + 1 :
            LET r == storeDocument(database, doc, now, failAt)
            IN /\ documents' = r.db.documents
               /\ document_chunks' = r.db.document_chunks
               /\ last' = Outcome("store", IF r.threw THEN 500 ELSE 200,
                                   IF r.threw THEN "store" ELSE None,
                                   id, doc.chunks, ~r.threw, failAt,
                                   chunkCount(database, id))
  /\ UNCHANGED <<env, embeddingCache, now, reqs>>

\* what a call of a cache helper returned, and the cache it found: the number
\* of entries, the first key in insertion order (None: empty) and whether
\* the key of text was there
CacheOutcome(op, text, found, embedding, sizeBefore, firstBefore, hadKey) ==
  [op |-> op, text |-> text, found |-> found, embedding |-> embedding,
   sizeBefore |-> sizeBefore, firstBefore |-> firstBefore, hadKey |-> hadKey]

firstKey(cache) == IF cache = <<>> THEN None ELSE cache[1].key

\* a call getCachedEmbedding(text), as the embedding loops make it
CacheGet(text) ==
  /\ UNCHANGED llmVars
  /\ Running
  /\ LET c == getCachedEmbedding(embeddingCache, text, now)
     IN last' = CacheOutcome("get", text, c.found, c.embedding, Len(embeddingCache),
                             firstKey(embeddingCache),
                             CacheIndex(embeddingCache, cacheKey(text)) # 0)
  /\ UNCHANGED <<env, documents, document_chunks, embeddingCache, now, reqs>>

\* a call setCachedEmbedding(text, embedding) with the vector the generator
\* returned for text, as the embedding loops make it
CacheSet(text) ==
  /\ UNCHANGED llmVars
  /\ Running /\ ~generateEmbeddingRejects(text)
  /\ embeddingCache' = setCachedEmbedding(embeddingCache, text, openaiEmbedding(text), now)
  /\ last' = CacheOutcome("set", text, FALSE, openaiEmbedding(text), Len(embeddingCache),
                          firstKey(embeddingCache),
                          CacheIndex(embeddingCache, cacheKey(text)) # 0)
  /\ UNCHANGED <<env, documents, document_chunks, now, reqs>>

\* a vector of another embedding model, which has one component more
ForeignVector == <<4, 4, 2>>

\* the last call was a search.  A search changes nothing but the record of
\* the last call and no action reads that record, so every state that follows
\* a search is also reached without it: the search specification takes its
\* searches from the states the creates lead to and stops after a search.
Searched == last.op \in {"search", "exam"}

\* a direct call of EmbeddingProvider.storeDocument with a document embedded
\* by another model
StoreForeign(id) ==
  /\ UNCHANGED llmVars
  /\ Running /\ ~Searched
  /\ \E subject \in RequestSubjects, failAt \in {0} :
       LET doc == [id |-> id, subject |-> subject, extractedText |-> <<"a">>,
                   chunks |-> <<[chunkIndex |-> 0, text |-> <<"a">>,
                                 embedding |-> ForeignVector,
                                 startIndex |-> 0, endIndex |-> 1]>>]
           r == storeDocument(database, doc, now, failAt)
       IN /\ documents' = r.db.documents
          /\ document_chunks' = r.db.document_chunks
          /\ last' = Outcome("store", IF r.threw THEN 500 ELSE 200,
                              IF r.threw THEN "store" ELSE None,
                              id, doc.chunks, ~r.threw, failAt, chunkCount(database, id))
  /\ UNCHANGED <<env, embeddingCache, now, reqs>>

\* the last step was a getDocuments request
Listed == last.op = "list"

\* the users and the author of the listed documents
UserIds == {"u1", "u2"}
Authors == {"ann"}

\* a direct create of a one-chunk document with the metadata the handlers
\* put into documentData
StoreListed(id) ==
  /\ UNCHANGED llmVars
  /\ Running /\ ~Listed
  /\ \E subject \in Subjects, userId \in UserIds, author \in Authors :
       LET items == chunkText(<<"a">>, MAX_CHUNK_SIZE, CHUNK_OVERLAP)
           embs == [k \in 1 .. Len(items) |->
                      [ok |-> TRUE, embedding |-> openaiEmbedding(items[k].text)]]
           doc == documentData(id, subject, <<"a">>, items, embs)
                    @@ [title |-> "t", author |-> author, difficulty |-> "medium",
                        type |-> "notes", userId |-> userId,
                        embeddingModel |-> "model", createdAt |-> now]
           r == storeDocument(database, doc, now, 0)
       IN /\ documents' = r.db.documents
          /\ document_chunks' = r.db.document_chunks
          /\ last' = Outcome("store", 200, None, id, doc.chunks, TRUE, 0,
                              chunkCount(database, id))
  /\ UNCHANGED <<env, embeddingCache, now, reqs>>

\* time passes between creates
TickBeforeList == ~Listed /\ Tick

\* the pages, the page sizes and the filters of the list requests
RequestPages == {-1, 0, 1, 2}
ListLimits == {-1, 0, 1, 2}
ListFilters ==
  { ListFilter(None, None, None, None, None),
    ListFilter("math", None, None, None, None),
    ListFilter("bio", None, None, None, None),
    ListFilter(None, "ann", None, None, None),
    ListFilter(None, None, "exam", None, None),
    ListFilter(None, None, None, "medium", None),
    ListFilter(None, None, None, None, "u1"),
    ListFilter("math", None, None, None, "u1") }
ListRequests ==
  { ListRequest(page, limit, filters) :
      page \in RequestPages, limit \in ListLimits, filters \in ListFilters }

\* one GET /documents request, from the request to the response
GetDocuments ==
  /\ UNCHANGED llmVars
  /\ Running /\ ~Listed
  /\ \E req \in ListRequests : last' \in getDocumentsResponses(database, req)
  /\ UNCHANGED <<env, documents, document_chunks, embeddingCache, now, reqs>>

\* the body of a PUT /documents/:id request (None: the key is absent)
UpdateBody(title, subject, extractedText) ==
  [title |-> title, subject |-> subject, extractedText |-> extractedText]

\* the keys schemas.documentUpdate knows; a body with another key is rejected
documentUpdateKeys == {"title", "metadata", "tags"}

UpdateBodies ==
  { UpdateBody("t2", None, None), UpdateBody(None, "bio", None),
    UpdateBody("t2", None, <<"b">>) }

\* what an update request is recorded as: the request, the time, the answer
\* and the rows the document had before
UpdateOutcome(id, body, time, status, docsBefore, chunksBefore) ==
  [op |-> "update", id |-> id, body |-> body, time |-> time, status |-> status,
   docsBefore |-> docsBefore, chunksBefore |-> chunksBefore]

\* the last step was an update request
Updated == last.op = "update"

\* validate(schemas.documentUpdate) and the updateDocument handler, which
\* answers 501 without reading the request
UpdateDocument(id) ==
  /\ UNCHANGED llmVars
  /\ Running
  /\ \E body \in UpdateBodies :
       last' = UpdateOutcome(id, body, now,
                             IF suppliedKeys(body) \subseteq documentUpdateKeys
                             THEN 501 ELSE 400,
                             { d \in documents : d.id = id },
                             chunksOf(document_chunks, id))
  /\ UNCHANGED <<env, documents, document_chunks, embeddingCache, now, reqs>>

CreateBeforeUpdate(id) == ~Updated /\ StoreListed(id)
TickBeforeUpdate == ~Updated /\ Tick

\* the last step was a selectBestProvider call.  The call changes nothing but
\* the record of the last call, so the provider steps stop after it.
ProviderSelected == last.op = "select"

\* one provider's part of checkProvidersHealth, from the answer of its test
\* call on
HealthCheck(n) ==
  /\ ~ProviderSelected /\ providers[n]
  /\ \/ providerHealth' = healthCheckOk(providerHealth, n)
     \/ /\ providerHealth[n].errorCount < MaxErrorCount
        /\ providerHealth' = healthCheckFailed(providerHealth, n)
  /\ UNCHANGED <<env, documents, document_chunks, embeddingCache, now, reqs, last,
                 providers, maxRetries, completion>>

\* the models a caller asks for (None: no model)
RequestedModels == {None, "gpt-4", "claude-3", "llama"}

\* a direct call selectBestProvider(requestedModel)
SelectBestProvider ==
  /\ ~ProviderSelected
  /\ \E model \in RequestedModels :
       LET s == selectBestProvider(providers, providerHealth, model)
       IN last' = [op |-> "select", model |-> model, threw |-> s.threw,
                   provider |-> s.provider]
  /\ UNCHANGED <<env, documents, document_chunks, embeddingCache, now, reqs>>
  /\ UNCHANGED llmVars

\* what a generateCompletion call ended with: whether it threw and why, the
\* provider whose result it returned, and the calls it had made
CompletionOutcome(threw, cause, provider, c) ==
  [op |-> "generate", threw |-> threw, cause |-> cause, provider |-> provider,
   selected |-> c.selected, selectedCalls |-> c.selectedCalls,
   selectedFailed |-> c.selectedFailed, fallbackCalls |-> c.fallbackCalls,
   otherAtStart |-> c.otherAtStart,
   otherAtEnd |-> c.selected # None /\ providerHealth[otherProvider(c.selected)].available]

\* generateCompletion up to its first await: the call of the selected provider
GenerateCompletion ==
  /\ ~ProviderSelected /\ completion.pc = "idle"
  /\ UNCHANGED <<env, documents, document_chunks, embeddingCache, now, reqs,
                 providers, providerHealth, maxRetries>>
  /\ \E hasPrompt \in BOOLEAN, model \in RequestedModels :
       IF ~hasPrompt
       THEN /\ last' = CompletionOutcome(TRUE, "prompt", None, NoCompletion)
            /\ UNCHANGED completion
       ELSE LET s == selectBestProvider(providers, providerHealth, model)
            IN IF s.threw
               THEN /\ last' = CompletionOutcome(TRUE, "select", None, NoCompletion)
                    /\ UNCHANGED completion
               ELSE IF ~(1 <= maxRetries)
               THEN /\ last' = CompletionOutcome(TRUE, "retries", None,
                                                  [NoCompletion EXCEPT !.selected = s.provider])
                    /\ UNCHANGED completion
               ELSE /\ completion' =
                         [pc |-> "call", selected |-> s.provider, attempt |-> 1,
                          selectedCalls |-> 1, selectedFailed |-> 0, fallbackCalls |-> 0,
                          otherAtStart |-> providerHealth[otherProvider(s.provider)].available]
                    /\ UNCHANGED last

\* the awaited callProvider(selectedProvider, ...) returns or throws
CallReturns ==
  /\ ~ProviderSelected /\ completion.pc = "call"
  /\ UNCHANGED <<env, documents, document_chunks, embeddingCache, now, reqs,
                 providers, providerHealth, maxRetries>>
  /\ \/ /\ last' = CompletionOutcome(FALSE, None, completion.selected, completion)
        /\ completion' = NoCompletion
     \/ LET c == [completion EXCEPT !.selectedFailed = @ + 1]
        IN IF c.attempt < maxRetries
           THEN /\ completion' = [c EXCEPT !.pc = "sleep"]
                /\ UNCHANGED last
           ELSE /\ last' = CompletionOutcome(TRUE, "retries", None, c)
                /\ completion' = NoCompletion

\* a call of the selected provider for the next attempt
nextAttempt(c) ==
  [c EXCEPT !.pc = "call", !.attempt = @ + 1, !.selectedCalls = @ + 1]

\* the awaited sleep ends: the fallback provider is called, or the next attempt starts
SleepDone ==
  /\ ~ProviderSelected /\ completion.pc = "sleep"
  /\ UNCHANGED <<env, documents, document_chunks, embeddingCache, now, reqs, last,
                 providers, providerHealth, maxRetries>>
  /\ IF fallbackDue(completion.attempt, maxRetries)
        /\ providerHealth[otherProvider(completion.selected)].available
     THEN completion' = [completion EXCEPT !.pc = "fallback", !.fallbackCalls = @ + 1]
     ELSE completion' = nextAttempt(completion)

\* the awaited callProvider(fallbackProvider, ...) returns or throws
FallbackReturns ==
  /\ ~ProviderSelected /\ completion.pc = "fallback"
  /\ UNCHANGED <<env, documents, document_chunks, embeddingCache, now, reqs,
                 providers, providerHealth, maxRetries>>
  /\ \/ /\ last' = CompletionOutcome(FALSE, None, otherProvider(completion.selected),
                                      completion)
        /\ completion' = NoCompletion
     \/ /\ completion' = nextAttempt(completion)
        /\ UNCHANGED last

\* the query texts, the limits and the thresholds of the search requests
QueryTexts == { <<"a">>, <<"b">> }
RequestLimits == {-1, 0, 2}
RequestThresholds == {0, 65}
Optional(S) == {[has |-> FALSE, val |-> 0]} \cup { [has |-> TRUE, val |-> v] : v \in S }
SearchRequests ==
  { SearchRequest(q, l.has, l.val, t.has, t.val, s) :
      q \in QueryTexts, l \in Optional(RequestLimits), t \in Optional(RequestThresholds),
      s \in {None} \cup RequestSubjects }
ExamRequests == { r \in SearchRequests : r.query = <<"a">> /\ ~r.hasThreshold }

\* the response of a search handler with the request it answers
SearchOutcome(op, req, response) ==
  [op |-> op, request |-> req, status |-> response.status, cause |-> response.cause,
   results |-> response.results]

\* validate(schemas.semanticSearch) and semanticSearch from the return of its
\* awaited generateEmbedding call to the response (before the await the
\* handler reads nothing but the request)
SemanticSearch ==
  /\ UNCHANGED llmVars
  /\ Running /\ ~Searched
  /\ \E req \in SearchRequests, generated \in BOOLEAN :
       last' = SearchOutcome("search", req, semanticSearch(database, req, generated))
  /\ UNCHANGED <<env, documents, document_chunks, embeddingCache, now, reqs>>

\* findExamContent from the return of its awaited generateEmbedding call on
FindExamContent ==
  /\ UNCHANGED llmVars
  /\ Running /\ ~Searched
  /\ \E req \in ExamRequests, generated \in BOOLEAN :
       last' = SearchOutcome("exam", req, findExamContent(database, req, generated))
  /\ UNCHANGED <<env, documents, document_chunks, embeddingCache, now, reqs>>

\* the ingestion pipeline: uploads, direct texts and deletions
Next ==
  \/ \E p \in Procs : UploadStart(p)
  \/ \E p \in Procs : ExtractDone(p)
  \/ \E p \in Procs : ProcessText(p)
  \/ \E p \in Procs : EmbedDone(p)
  \/ \E id \in DocIds : DeleteDocument(id)

Spec == InitUnset /\ [][Next]_vars

\* the embedding cache under every configuration: batches, expiry, clearing
NextCache ==
  \/ \E p \in Procs : BatchStart(p)
  \/ \E p \in Procs : EmbedDone(p)
  \/ ClearCache
  \/ Tick

SpecCache == Init /\ [][NextCache]_vars

\* ingestions and batches that share the cache
NextShared ==
  \/ \E p \in Procs : ProcessText(p)
  \/ \E p \in Procs : BatchStart(p)
  \/ \E p \in Procs : EmbedDone(p)

SpecShared == InitUnset /\ [][NextShared]_vars

\* the store alone: direct creates and deletes under chosen ids
NextStore ==
  \/ \E id \in DocIds : StoreDocument(id)
  \/ \E id \in DocIds : DeleteDocument(id)

SpecStore == InitUnset /\ [][NextStore]_vars

\* the cache helpers called one after the other while time passes
NextCacheOps ==
  \/ \E text \in Texts : CacheGet(text)
  \/ \E text \in Texts : CacheSet(text)
  \/ Tick

SpecCacheOps == InitUnset /\ [][NextCacheOps]_vars

\* ingestions next to batches whose texts share a cache key with a chunk
NextKeys ==
  \/ \E p \in Procs : ProcessText(p)
  \/ \E p \in Procs : BatchStartLong(p)
  \/ \E p \in Procs : EmbedDone(p)

SpecKeys == InitEnabled /\ [][NextKeys]_vars

\* a create of the search specification
CreateBeforeSearch(id) == ~Searched /\ StoreDocument(id)

\* searches over a store that direct creates fill
NextSearch ==
  \/ \E id \in DocIds : CreateBeforeSearch(id)
  \/ \E id \in DocIds : StoreForeign(id)
  \/ SemanticSearch
  \/ FindExamContent

SpecSearch == InitUnset /\ [][NextSearch]_vars

\* listings of a store that direct creates fill at different times
NextList ==
  \/ \E id \in DocIds : StoreListed(id)
  \/ TickBeforeList
  \/ GetDocuments

SpecList == InitUnset /\ [][NextList]_vars

\* updates of a store that direct creates fill at different times
NextUpdate ==
  \/ \E id \in DocIds : CreateBeforeUpdate(id)
  \/ TickBeforeUpdate
  \/ \E id \in DocIds : UpdateDocument(id)

SpecUpdate == InitUnset /\ [][NextUpdate]_vars

\* completions, provider selections and health checks of one LLMProvider
NextLlm ==
  \/ \E n \in ProviderNames : HealthCheck(n)
  \/ SelectBestProvider
  \/ GenerateCompletion
  \/ CallReturns
  \/ SleepDone
  \/ FallbackReturns

SpecLlm == InitLlm /\ [][NextLlm]_vars

\* completions next to the health checks; every awaited call and every sleep
\* comes to an end
NextCompletion ==
  \/ \E n \in ProviderNames : HealthCheck(n)
  \/ GenerateCompletion
  \/ CallReturns
  \/ SleepDone
  \/ FallbackReturns

SpecCompletion ==
  /\ InitLlm /\ [][NextCompletion]_vars
  /\ WF_vars(CallReturns) /\ WF_vars(SleepDone) /\ WF_vars(FallbackReturns)

\* calls of the pure function chunkText
NextChunk == ChunkText

SpecChunk == InitUnset /\ [][NextChunk]_vars

\* the last step was a direct chunkText call
Chunked == last.op = "chunkText"
Quiescent == \A p \in Procs : reqs[p].pc = "idle"

\* ingestions, and chunkText calls on arbitrary texts between them; a
\* chunkText call changes nothing an ingestion reads
ChunkBetween == ~Chunked /\ Quiescent /\ ChunkText
UploadStartIngest(p) == ~Chunked /\ UploadStart(p)
ExtractDoneIngest(p) == ~Chunked /\ ExtractDone(p)
ProcessTextIngest(p) == ~Chunked /\ ProcessText(p)
EmbedDoneIngest(p) == ~Chunked /\ EmbedDone(p)

NextIngestChunks ==
  \/ ChunkBetween
  \/ \E p \in Procs : UploadStartIngest(p)
  \/ \E p \in Procs : ExtractDoneIngest(p)
  \/ \E p \in Procs : ProcessTextIngest(p)
  \/ \E p \in Procs : EmbedDoneIngest(p)

SpecIngestChunks == InitUnset /\ [][NextIngestChunks]_vars

\* ============================================================ properties
\* the rows of document id
docRows(docs, id) == { d \in docs : d.id = id }
noRowsOf(docs, chunks, id) == docRows(docs, id) = {} /\ chunksOf(chunks, id) = <<>>

\* the chunk rows a create writes for the chunks it is given
rowsFor(id, chunks) == [k \in 1 .. Len(chunks) |-> chunkRow(id, chunks[k])]

\* C1: storeDocument is all-or-nothing: after a create attempt either the
\* document row and every chunk row of the attempt are in the store, or, when
\* a row insert of the attempt failed, the store is as it was before the
\* attempt (it holds no row the attempt wrote).
C1_StoreAllOrNothing ==
  [][ last'.op = "store" =>
        IF last'.result
        THEN /\ docRows(documents', last'.id) # {}
             /\ chunksOf(document_chunks', last'.id) = rowsFor(last'.id, last'.chunks)
        ELSE UNCHANGED <<documents, document_chunks>> ]_vars

\* a create that failed after it had written the document row and a chunk row
C1_Witness ==
  last.op = "store" /\ ~last.result /\ last.failedAt >= 3 /\ document_chunks # <<>>

\* an ingestion ends in this step: a handler that was waiting returns to idle,
\* or processText answers without ever waiting
IngestionEnds ==
  /\ last'.op \in {"upload", "text"}
  /\ \/ reqs' = reqs
     \/ \E p \in Procs : reqs[p].pc \in {"extract", "embed"} /\ reqs'[p].pc = "idle"

\* C2: an ingestion in which the extraction, the minimum-length check, the
\* embedding of a chunk or the store write fails ends with an error response
\* and leaves no document row and no chunk row in the store.
C2_FailedIngestionStoresNothing ==
  [][ (IngestionEnds /\ last'.cause # None) =>
        /\ last'.status \in {400, 500}
        /\ ~last'.result
        /\ UNCHANGED <<documents, document_chunks>> ]_vars

\* an upload whose store write failed after rows had been written, next to a
\* document stored earlier
C2_Witness ==
  /\ last.op = "upload" /\ last.cause = "store" /\ last.failedAt >= 3
  /\ last.status = 500 /\ documents # {}

\* C3: after creates under one id the store holds one document row for the id
\* and exactly the chunk rows of the last completed create: no chunk row of an
\* earlier create is left, and chunk_index is unique within a document.
C3_RecreateReplaces ==
  /\ \A id \in DocIds : Cardinality(docRows(documents, id)) <= 1
  /\ \A id \in DocIds :
       LET rows == chunksOf(document_chunks, id)
       IN \A i, j \in 1 .. Len(rows) :
            rows[i].chunk_index = rows[j].chunk_index => i = j
  /\ (last.op = "store" /\ last.result) =>
       /\ Cardinality(docRows(documents, last.id)) = 1
       /\ chunksOf(document_chunks, last.id) = rowsFor(last.id, last.chunks)

\* a create over a document that had two chunk rows, with fewer chunks
C3_Witness ==
  last.op = "store" /\ last.result /\ last.hadChunks >= 2 /\ Len(last.chunks) = 1

\* the searches tried against a state
Queries == { Float32Array(ModelVector(t)) : t \in Texts } \cup { <<4, 0>> }
SearchLimits == {1, 10}
SearchThresholds == {0, 75, 100}
SearchFilters == [subject : {None} \cup Subjects]

\* no search returns a chunk of document id
neverFound(db, id) ==
  \A e \in Queries, l \in SearchLimits, t \in SearchThresholds, f \in SearchFilters :
    LET s == searchSimilar(db, e, l, t, f)
    IN \A i \in 1 .. Len(s.results) : s.results[i].documentId # id

\* C4: after deleteDocument(id) returned true the store holds no document row
\* and no chunk row of id; a delete removes both kinds of rows or, when it
\* fails, neither; and while there is no document row for an id no search,
\* whatever its filters, threshold and limit, returns a result of that id.
C4_DeleteRemovesAll ==
  /\ [](last.op = "delete" /\ last.result =>
          noRowsOf(documents, document_chunks, last.id))
  /\ [](\A id \in DocIds : docRows(documents, id) = {} => neverFound(database, id))
  /\ [][ last'.op = "delete" =>
           IF last'.result
           THEN /\ documents' = documents \ docRows(documents, last'.id)
                /\ document_chunks' = chunksNotOf(document_chunks, last'.id)
           ELSE UNCHANGED <<documents, document_chunks>> ]_vars

\* a delete that removed a document with chunk rows while another document
\* with chunk rows stays
C4_Witness ==
  last.op = "delete" /\ last.result /\ last.hadChunks >= 1 /\ document_chunks # <<>>

\* C5: deleteDocument(id) for an id without a document row returns false
\* without an error (the handler answers 404, not 500) and leaves every
\* document row and chunk row unchanged.
C5_DeleteAbsent ==
  [][ (last'.op = "delete" /\ docRows(documents, last'.id) = {}) =>
        /\ UNCHANGED <<documents, document_chunks>>
        /\ ~last'.result
        /\ last'.failedAt = 0 => (last'.status = 404 /\ last'.cause = None) ]_vars

\* a delete of an absent id while another document with chunks is stored
C5_Witness ==
  /\ last.op = "delete" /\ last.hadChunks = -1 /\ last.status = 404
  /\ document_chunks # <<>>

\* C6: right after a document was stored with chunks c_0 .. c_{N-1},
\* getDocument(id, {includeChunks: true}) returns N chunks, ordered by
\* chunkIndex ascending, and the text of the i-th is the text of c_i.
C6_RoundTrip ==
  (last.op = "store" /\ last.result) =>
    LET g == getDocument(database, last.id)
    IN /\ g.found
       /\ Len(g.chunks) = Len(last.chunks)
       /\ \A i \in 1 .. Len(g.chunks) :
            /\ g.chunks[i].text = last.chunks[i].text
            /\ g.chunks[i].chunk_index = i - 1

\* a document stored with two chunks after another document
C6_Witness ==
  /\ last.op = "store" /\ last.result /\ Len(last.chunks) >= 2
  /\ Cardinality(documents) >= 2

\* C7: every document row has an extracted_text of at least the configured
\* minimum length.
C7_MinTextLength ==
  \A d \in documents : Len(d.extracted_text) >= MIN_TEXT_LENGTH

\* C8: for every document the chunk_index values of its chunk rows are
\* exactly 0 .. N-1, each once, and a smaller chunk_index goes with a smaller
\* start offset.
C8_ContiguousIndices ==
  \A id \in DocIds :
    LET rows == chunksOf(document_chunks, id)
    IN /\ { rows[i].chunk_index : i \in 1 .. Len(rows) } = 0 .. (Len(rows) - 1)
       /\ \A i, j \in 1 .. Len(rows) :
            /\ rows[i].chunk_index = rows[j].chunk_index => i = j
            /\ rows[i].chunk_index < rows[j].chunk_index
                 => rows[i].start_index < rows[j].start_index

\* two documents with chunk rows, one of them with two chunks
C8_Witness ==
  /\ \E id \in DocIds : Len(chunksOf(document_chunks, id)) >= 2
  /\ \A id \in DocIds : Len(chunksOf(document_chunks, id)) >= 1

\* caching is switched on by CACHE_EMBEDDINGS = 'true'
cachingEnabled == JsStrictEq(env.CACHE_EMBEDDINGS, JsString("true"))

\* C9: with caching disabled (CACHE_EMBEDDINGS is not 'true') every
\* getCachedEmbedding reports absent and setCachedEmbedding changes nothing:
\* the cache stays empty.
C9_DisabledCacheInert ==
  ~cachingEnabled =>
    /\ embeddingCache = <<>>
    /\ \A t \in Texts : ~getCachedEmbedding(embeddingCache, t, now).found

\* C10: the embedding cache never holds more than CACHE_MAX_SIZE entries,
\* whatever the interleaving of ingestions and batches at their awaits.
C10_CacheBounded == Len(embeddingCache) <= CACHE_MAX_SIZE

\* a full cache while an ingestion and a batch both wait for the embedding of
\* a text whose key is not cached
C10_Witness ==
  /\ Len(embeddingCache) = CACHE_MAX_SIZE
  /\ \E p, q \in Procs :
       /\ reqs[p].pc = "embed" /\ reqs[p].kind = "text"
       /\ reqs[q].pc = "embed" /\ reqs[q].kind = "batch"
       /\ CacheIndex(embeddingCache, cacheKey(reqs[p].items[reqs[p].i].text)) = 0
       /\ CacheIndex(embeddingCache, cacheKey(reqs[q].items[reqs[q].i].text)) = 0

\* the keys of a cache in insertion order
cacheKeys(cache) == [i \in 1 .. Len(cache) |-> cache[i].key]

entryAge(text) ==
  LET i == CacheIndex(embeddingCache, cacheKey(text))
  IN IF i = 0 THEN -1 ELSE now - embeddingCache[i].timestamp

cachedVector(text) == embeddingCache[CacheIndex(embeddingCache, cacheKey(text))].embedding

\* C12 (as stated): get(text) returns the cached vector when the age of the
\* entry does not exceed CACHE_TTL and reports absent when it exceeds it.
C12_TtlInclusive ==
  \A t \in Texts :
    LET c == getCachedEmbedding(embeddingCache, t, now)
    IN entryAge(t) >= 0 =>
         /\ entryAge(t) <= CACHE_TTL => (c.found /\ c.embedding = cachedVector(t))
         /\ entryAge(t) > CACHE_TTL => ~c.found

\* C12 (amended): get(text) returns the cached vector exactly when the entry
\* is there and its age is below CACHE_TTL; from the age CACHE_TTL on it
\* reports absent although the entry is still in the map, and a get never
\* removes or changes an entry.
C12_TtlExclusive ==
  /\ [](\A t \in Texts :
          LET c == getCachedEmbedding(embeddingCache, t, now)
          IN /\ entryAge(t) = -1 => ~c.found
             /\ entryAge(t) >= 0 =>
                  /\ entryAge(t) < CACHE_TTL => (c.found /\ c.embedding = cachedVector(t))
                  /\ entryAge(t) >= CACHE_TTL => ~c.found)
  /\ [][ last'.op = "get" =>
          /\ embeddingCache' = embeddingCache
          /\ (now' = now /\ last' # last) =>
               (last'.found <=> (entryAge(last'.text) >= 0
                                 /\ entryAge(last'.text) < CACHE_TTL)) ]_vars

\* a get that reported absent for a key whose expired entry is still there
C12_Witness ==
  /\ last.op = "get" /\ ~last.found /\ last.hadKey
  /\ entryAge(last.text) >= CACHE_TTL
  /\ \E t \in Texts : getCachedEmbedding(embeddingCache, t, now).found

\* in this step the generator call request p was waiting for returned or threw
EmbedReturns(p) == reqs[p].pc = "embed" /\ reqs'[p] # reqs[p]

\* in this step request p calls the generator and starts to wait for it
CallIssued(p) == reqs'[p].pc = "embed" /\ reqs'[p] # reqs[p]

\* the items request p passed in this step without calling the generator
passedItems(p) ==
  ((IF reqs[p].pc = "embed" THEN reqs[p].i + 1 ELSE 1)) .. (reqs'[p].i - 1)

\* the call for item i of request p succeeded: the vector is in the cache and
\* is the one the handler goes on with
embedSucceeded(p) ==
  LET r == reqs[p]
      t == r.items[r.i].text
  IN /\ embeddingCache' = setCachedEmbedding(embeddingCache, t, openaiEmbedding(t), now)
     /\ CacheIndex(embeddingCache', cacheKey(t)) # 0
     /\ embeddingCache'[CacheIndex(embeddingCache', cacheKey(t))].embedding
          = openaiEmbedding(t)
     /\ IF CallIssued(p)
        THEN reqs'[p].embs[r.i] = [ok |-> TRUE, embedding |-> openaiEmbedding(t)]
        ELSE IF r.kind = "batch"
        THEN last'.op = "batch" /\ last'.chunks[r.i].success
        ELSE last'.op = r.kind /\ last'.cause # "embedding"

\* the call for item i of request p failed: nothing went into the cache and
\* the error is in the response (in the item's result for a batch)
embedFailed(p) ==
  LET r == reqs[p]
  IN /\ embeddingCache' = embeddingCache
     /\ IF r.kind = "batch"
        THEN IF CallIssued(p)
             THEN ~reqs'[p].embs[r.i].ok
             ELSE last'.op = "batch" /\ ~last'.chunks[r.i].success
        ELSE /\ reqs'[p] = Idle
             /\ last'.op = r.kind /\ last'.status = 500 /\ last'.cause = "embedding"

\* C13: the embedding loops call the generator for a text only after the
\* cache reported it absent, and every text they pass without a call was
\* served from the cache (or rejected as blank before any call); a call is
\* made once, the loop never waits twice for the same item; when the call
\* succeeds its vector is put in the cache and used, when it fails nothing
\* is put in the cache and the error is in the response.
C13_HitSkipsGenerator ==
  [][ \A p \in Procs :
        /\ CallIssued(p) =>
             LET r == reqs'[p]
             IN /\ ~getCachedEmbedding(embeddingCache', r.items[r.i].text, now').found
                /\ \A k \in passedItems(p) :
                     LET c == getCachedEmbedding(embeddingCache', r.items[k].text, now')
                     IN IF r.embs[k].ok
                        THEN c.found /\ r.embs[k].embedding = c.embedding
                        ELSE r.kind = "batch" /\ generateEmbeddingRejects(r.items[k].text)
        /\ (EmbedReturns(p) /\ CallIssued(p)) => reqs'[p].i > reqs[p].i
        /\ EmbedReturns(p) => (embedSucceeded(p) \/ embedFailed(p)) ]_vars

\* an ingestion that took its first chunk from the cache (the vector is not
\* the one the generator gives for the chunk) and waits for the generator on
\* its second chunk, which the cache does not have
C13_Witness ==
  \E p \in Procs :
    LET r == reqs[p]
    IN /\ r.pc = "embed" /\ r.kind = "text" /\ r.i = 2
       /\ r.embs[1].ok /\ r.embs[1].embedding # openaiEmbedding(r.items[1].text)
       /\ ~getCachedEmbedding(embeddingCache, r.items[2].text, now).found

\* C14: the vector stored for a chunk is the vector the generator returns
\* for the text of the chunk, whatever the cache held during the ingestion.
C14_CacheTransparent ==
  \A k \in 1 .. Len(document_chunks) :
    document_chunks[k].embedding =
      Float32Array(openaiEmbedding(document_chunks[k].text))

\* C15: a batch request in which the embedding of a text failed fails as a
\* whole: its response is an error without a list of results; a response
\* with results has a successful result for every text, in input order.
C15_BatchAllOrNothing ==
  last.op = "batch" =>
    IF \A k \in 1 .. Len(last.chunks) : last.chunks[k].success
    THEN last.status = 200 /\ \A k \in 1 .. Len(last.chunks) : last.chunks[k].index = k - 1
    ELSE last.status # 200 /\ ~last.result

\* the query vector, the limit and the threshold searchSimilar was called with
\* for the request of the last search, and the rows it scanned
lastQuery == openaiEmbedding(IF last.op = "exam" THEN examQuery ELSE last.request.query)
lastLimit == limitOr(last.request, IF last.op = "exam" THEN ExamDefaultLimit ELSE DefaultLimit)
lastThreshold == IF last.op = "exam" THEN ExamThreshold ELSE thresholdOr(last.request)
lastScan == joinedRows(database, [subject |-> last.request.subject], 1)

\* row is in the results of the last search
inResults(row) ==
  \E i \in 1 .. Len(last.results) :
    /\ last.results[i].documentId = row.document_id
    /\ last.results[i].chunkIndex = row.chunk_index

\* C16: a search that supplies a threshold t returns, when the limit does
\* not truncate, exactly the chunks of the filtered scan whose similarity to
\* the query is at least t; the default is used only without a threshold.
C16_ThresholdLowerBound ==
  (last.op = "search" /\ last.status = 200 /\ Len(lastScan) <= lastLimit) =>
    LET t == IF last.request.hasThreshold THEN last.request.threshold
             ELSE SIMILARITY_THRESHOLD
    IN \A k \in 1 .. Len(lastScan) :
         inResults(lastScan[k]) <=>
           simGE(cosineSimilarity(lastQuery, lastScan[k].embedding), thresholdSim(t))

\* the rows of the last scan that reach the threshold, in scan order
lastQualifying ==
  LET Reaches(row) ==
        simGE(cosineSimilarity(lastQuery, row.embedding), thresholdSim(lastThreshold))
  IN SelectSeq(lastScan, Reaches)

simEq(x, y) == simGE(x, y) /\ simGE(y, x)

\* C17: a search that succeeds returns min(limit, number of qualifying
\* chunks) results, each a qualifying chunk with its similarity, ordered by
\* similarity descending and, among equal similarities, by (documentId,
\* chunkIndex) ascending; no qualifying chunk left out has a higher
\* similarity than a returned one.
C17_RankedTruncation ==
  (last.op \in {"search", "exam"} /\ last.status = 200 /\ lastLimit >= 1) =>
    LET rs == last.results
        qs == lastQualifying
    IN /\ Len(rs) = Min(lastLimit, Len(qs))
       /\ \A i \in 1 .. Len(rs) :
            \E k \in 1 .. Len(qs) :
              /\ qs[k].document_id = rs[i].documentId
              /\ qs[k].chunk_index = rs[i].chunkIndex
              /\ rs[i].similarity = cosineSimilarity(lastQuery, qs[k].embedding)
       /\ \A i, j \in 1 .. Len(rs) :
            i < j =>
              /\ simGE(rs[i].similarity, rs[j].similarity)
              /\ simEq(rs[i].similarity, rs[j].similarity) =>
                   \/ rs[i].documentId < rs[j].documentId
                   \/ /\ rs[i].documentId = rs[j].documentId
                      /\ rs[i].chunkIndex < rs[j].chunkIndex
       /\ \A k \in 1 .. Len(qs) :
            ~inResults(qs[k]) =>
              \A i \in 1 .. Len(rs) :
                simGE(rs[i].similarity, cosineSimilarity(lastQuery, qs[k].embedding))

\* a search with limit 2 over four qualifying chunks whose two results have
\* the same similarity
C17_Witness ==
  /\ last.op = "search" /\ last.status = 200
  /\ last.request.hasLimit /\ last.request.limit = 2
  /\ Len(lastQualifying) = 4 /\ Len(last.results) = 2
  /\ simEq(last.results[1].similarity, last.results[2].similarity)
  /\ last.results[1].documentId # last.results[2].documentId

\* C18: a search request with a limit below 1, through semanticSearch or
\* findExamContent, is rejected as an invalid argument and gets no results
\* (a request whose query could not be embedded fails for that reason).
C18_LimitBelowOneRejected ==
  (last.op \in {"search", "exam"} /\ last.request.hasLimit /\ last.request.limit < 1
   /\ last.cause # "embedding") =>
    (last.status = 400 /\ last.cause = "validation" /\ last.results = <<>>)

\* the last search scanned a chunk whose vector has another length than the query
lastScanMismatch ==
  \E k \in 1 .. Len(lastScan) : Len(lastScan[k].embedding) # Len(lastQuery)

\* C19: a search that scans a chunk whose stored vector has another length
\* than the query vector fails as a whole with the error of
\* cosineSimilarity and returns no results, also not those of the chunks
\* scored before that chunk; without such a chunk the scan does not fail.
C19_DimensionMismatchFails ==
  (last.op \in {"search", "exam"} /\ last.cause \notin {"validation", "embedding"}) =>
    IF lastScanMismatch
    THEN last.status = 500 /\ last.cause = "search" /\ last.results = <<>>
    ELSE last.status = 200

\* a failed search whose scan had a qualifying chunk of the right length
\* before the chunk of another length
C19_Witness ==
  /\ last.op = "search" /\ last.status = 500 /\ last.cause = "search"
  /\ Len(lastScan) >= 2
  /\ Len(lastScan[1].embedding) = Len(lastQuery)
  /\ simGE(cosineSimilarity(lastQuery, lastScan[1].embedding), thresholdSim(lastThreshold))
  /\ Len(lastScan[Len(lastScan)].embedding) # Len(lastQuery)

\* the window starts chunkText visits: 0, step, 2 * step, ... below the length
windowStarts(text, chunkSize, overlap) ==
  { i \in 0 .. Len(text) - 1 : i % (chunkSize - overlap) = 0 }

\* the last step was a returning chunkText call with chunkSize > overlap > 0
chunkedWithOverlap ==
  /\ last.op = "chunkText" /\ last.returned
  /\ last.chunkSize > last.overlap /\ last.overlap > 0

C21_InvalidArgumentsRejected ==
  (last.op = "chunkText"
   /\ (last.overlap >= last.chunkSize \/ last.chunkSize < 1 \/ last.overlap < 1)) =>
    (last.threw /\ last.chunks = <<>>)

\* C22: every chunk a returning chunkText call emits has a non-empty text,
\* the slice of its window without leading and trailing whitespace; a
\* visited window whose slice is all whitespace gives no chunk; the chunks
\* an ingestion holds and every chunk row in the store have non-empty text.
C22_NoEmptyChunk ==
  /\ (Chunked /\ last.returned /\ last.chunkSize > last.overlap) =>
       LET window(i) == Slice(last.text, i, i + last.chunkSize)
       IN /\ \A k \in 1 .. Len(last.chunks) :
                /\ last.chunks[k].text # <<>>
                /\ last.chunks[k].text = Trim(window(last.chunks[k].startIndex))
          /\ \A i \in windowStarts(last.text, last.chunkSize, last.overlap) :
                Trim(window(i)) = <<>> =>
                  \A k \in 1 .. Len(last.chunks) : last.chunks[k].startIndex # i
  /\ (Chunked /\ last.returned) =>
       \A k \in 1 .. Len(last.chunks) : last.chunks[k].text # <<>>
  /\ \A p \in Procs : \A k \in 1 .. Len(reqs[p].items) : reqs[p].items[k].text # <<>>
  /\ \A k \in 1 .. Len(document_chunks) : document_chunks[k].text # <<>>

\* after an ingestion has stored chunk rows, a chunkText call skipped a blank
\* window, emitted a chunk from a later window and trimmed a chunk
C22_Witness ==
  /\ Len(document_chunks) >= 1
  /\ Chunked /\ last.returned /\ last.chunkSize > last.overlap
  /\ LET window(i) == Slice(last.text, i, i + last.chunkSize)
     IN /\ \E i \in windowStarts(last.text, last.chunkSize, last.overlap) :
              /\ Trim(window(i)) = <<>>
              /\ \E k \in 1 .. Len(last.chunks) : last.chunks[k].startIndex > i
        /\ \E k \in 1 .. Len(last.chunks) :
              last.chunks[k].text # window(last.chunks[k].startIndex)

\* the documents whose fields equal every supplied filter value
documentsMatching(filters) ==
  { d \in documents :
      \A key \in suppliedKeys(filters) : d[searchColumn[key]] = filters[key] }

\* the listed columns of the rows at the 0-based positions lo .. hi - 1 of order
positionsOf(order, lo, hi) ==
  LET from == IF lo < 0 THEN 0 ELSE lo
      to == Min(hi, Len(order))
  IN IF to <= from THEN <<>>
     ELSE [k \in 1 .. to - from |-> [c \in listedColumns |-> order[from + k][c]]]

\* the last step was a list request that was answered with a page
listAnswered == last.op = "list" /\ last.status = 200

\* the items of the last list response are the positions lo .. hi - 1 of the
\* matching documents in an order of descending created_at
lastItemsArePositions(lo, hi) ==
  \E order \in descendingOrders(documentsMatching(last.request.filters)) :
    last.items = positionsOf(order, lo, hi)

\* C23 as claimed: a list request for any page and pageSize returns the
\* documents at the positions (page - 1) * pageSize .. page * pageSize - 1
\* of the matching documents, newest first, and the number of all matching
\* documents as total.
C23_ListPositions ==
  listAnswered =>
    /\ last.total = Cardinality(documentsMatching(last.request.filters))
    /\ lastItemsArePositions((last.request.page - 1) * last.request.limit,
                             last.request.page * last.request.limit)

\* the page and the page size the handler works with
lastPage == IF last.request.page # 0 THEN last.request.page ELSE DefaultPage
lastPageSize == IF last.request.limit # 0 THEN last.request.limit ELSE DefaultListLimit

\* C23 amended: total is the number of all matching documents whatever page
\* and pageSize are; for page >= 1 and pageSize >= 1 the items are the
\* positions (page - 1) * pageSize .. page * pageSize - 1 of the matching
\* documents, newest first; a page or pageSize of 0 counts as 1 or 20, a
\* negative offset counts as 0 and a negative pageSize lists to the end.
C23_ListPagination ==
  listAnswered =>
    LET total == Cardinality(documentsMatching(last.request.filters))
        lo == (lastPage - 1) * lastPageSize
        from == IF lo < 0 THEN 0 ELSE lo
    IN /\ last.total = total
       /\ lastItemsArePositions(from, IF lastPageSize < 0 THEN total ELSE from + lastPageSize)
       /\ (last.request.page >= 1 /\ last.request.limit >= 1) =>
            lastItemsArePositions((last.request.page - 1) * last.request.limit,
                                  last.request.page * last.request.limit)

\* the second page of size 1 of two documents created at different times:
\* the older one
C23_Witness ==
  /\ listAnswered /\ last.request.page = 2 /\ last.request.limit = 1
  /\ last.total = 2 /\ Len(last.items) = 1
  /\ \E d \in documents : d.created_at > last.items[1].created_at

\* the ids of the documents whose chunks searchSimilar scans under filters
scannedDocuments(filters) ==
  LET rows == joinedRows(database, filters, 1)
  IN { rows[k].document_id : k \in 1 .. Len(rows) }

\* C24: for every filter set over subject, author, type, difficulty and
\* userId a list request succeeds, counts and returns only the documents
\* whose fields equal all the supplied values, and these are the documents
\* whose chunks searchSimilar scans under the same filter set.
C24_ListAndSearchFilters ==
  last.op = "list" =>
    LET matching == documentsMatching(last.request.filters)
    IN /\ last.status = 200
       /\ last.total = Cardinality(matching)
       /\ \A k \in 1 .. Len(last.items) : \E d \in matching : d.id = last.items[k].id
       /\ scannedDocuments(last.request.filters) = { d.id : d \in matching }

\* C25: an update of an existing document succeeds, gives the supplied
\* fields among title and subject their new values, sets updated_at to the
\* time of the update and leaves id, extracted_text, user_id,
\* embedding_model, created_at, the fields not supplied and the chunk rows
\* as they were, also when the body names extractedText; an update of an
\* absent id answers 404.
C25_UpdateFrame ==
  Updated =>
    IF last.docsBefore = {}
    THEN last.status = 404
    ELSE /\ last.status = 200
         /\ chunksOf(document_chunks, last.id) = last.chunksBefore
         /\ \E d \in documents, b \in last.docsBefore :
              /\ d.id = last.id
              /\ d.title = (IF last.body.title # None THEN last.body.title ELSE b.title)
              /\ d.subject = (IF last.body.subject # None THEN last.body.subject ELSE b.subject)
              /\ d.updated_at = last.time
              /\ \A c \in documentColumns \ {"title", "subject", "updated_at"} : d[c] = b[c]

\* request p is an ingestion waiting for the embedding of a chunk
embedding(p) == reqs[p].pc = "embed" /\ reqs[p].kind # "batch"

\* C26: within one ingestion the embedding of chunk k is awaited only when
\* the embeddings of the chunks before k are there, and the next one awaited
\* is a later chunk; a success response is given in the step that has
\* written the document row and a chunk row with an embedding for every
\* chunk; a step of one ingestion leaves the rows of the other documents and
\* the progress of the other requests as they were.
C26_IngestionOrdered ==
  /\ [](\A p \in Procs : embedding(p) =>
          /\ reqs[p].i \in 1 .. Len(reqs[p].items)
          /\ Len(reqs[p].embs) = reqs[p].i - 1
          /\ \A k \in 1 .. Len(reqs[p].embs) :
                reqs[p].embs[k].ok /\ reqs[p].embs[k].embedding # <<>>)
  /\ [][\A p \in Procs :
          (embedding(p) /\ reqs'[p].pc = "embed" /\ reqs'[p] # reqs[p]) =>
            /\ reqs'[p].items = reqs[p].items
            /\ reqs'[p].i > reqs[p].i
            /\ SubSeq(reqs'[p].embs, 1, Len(reqs[p].embs)) = reqs[p].embs
            /\ UNCHANGED <<documents, document_chunks, last>>]_vars
  /\ [][(IngestionEnds /\ last'.status = 200) =>
          LET rows == chunksOf(document_chunks', last'.id)
          IN /\ docRows(documents, last'.id) = {}
             /\ docRows(documents', last'.id) # {}
             /\ \A k \in 1 .. Len(rows) :
                   rows[k].chunk_index = k - 1 /\ rows[k].embedding # <<>>
             /\ \A p \in Procs :
                   (embedding(p) /\ reqs'[p].pc = "idle") =>
                     [k \in 1 .. Len(rows) |-> rows[k].text]
                       = [k \in 1 .. Len(reqs[p].items) |-> reqs[p].items[k].text]]_vars
  /\ [][(last'.op \in {"upload", "text"}
         /\ <<documents, document_chunks>>' # <<documents, document_chunks>>) =>
          /\ last'.status = 200
          /\ \A d \in documents :
                /\ d \in documents'
                /\ chunksOf(document_chunks', d.id) = chunksOf(document_chunks, d.id)
          /\ \A q \in Procs : reqs'[q] # reqs[q] => reqs'[q].pc = "idle"]_vars

\* an ingestion has answered with success for a document of two chunks while
\* another ingestion, started before that answer, waits for its second
\* embedding
C26_Witness ==
  /\ last.op \in {"upload", "text"} /\ last.status = 200
  /\ Len(chunksOf(document_chunks, last.id)) = 2
  /\ \E q \in Procs : embedding(q) /\ reqs[q].i = 2

\* C27: a setCachedEmbedding call for a key the cache already holds leaves
\* the number of entries as it was, keeps every entry of another key as it
\* was and gives the entry of the key the new vector, also when the cache
\* holds CACHE_MAX_SIZE entries.
C27_ResetKeepsOthers ==
  [][(last'.op = "set" /\ last'.hadKey /\ last'.sizeBefore = Len(embeddingCache)) =>
       /\ Len(embeddingCache') = Len(embeddingCache)
       /\ \A i \in 1 .. Len(embeddingCache) :
             embeddingCache[i].key # cacheKey(last'.text) =>
               \E j \in 1 .. Len(embeddingCache') : embeddingCache'[j] = embeddingCache[i]
       /\ \E j \in 1 .. Len(embeddingCache') :
             /\ embeddingCache'[j].key = cacheKey(last'.text)
             /\ embeddingCache'[j].embedding = last'.embedding]_vars

\* the last generateCompletion call got as far as its retry loop
completionRan == last.op = "generate" /\ last.cause \notin {"prompt", "select"}

\* C28: a generateCompletion call that reaches its retry loop with
\* maxRetries = N >= 1 ends; it calls the selected provider at most N times
\* and the other provider at most once; it returns the result of the first
\* call that succeeds and makes no call after it; it throws only when N calls
\* of the selected provider have failed.
C28_RetriesBounded ==
  /\ [](/\ completion.attempt <= maxRetries
        /\ completion.selectedCalls <= maxRetries
        /\ completion.fallbackCalls <= 1)
  /\ [](completionRan =>
          /\ last.selectedCalls <= maxRetries /\ last.fallbackCalls <= 1
          /\ (~last.threw /\ last.provider = last.selected) =>
               last.selectedFailed = last.selectedCalls - 1
          /\ (~last.threw /\ last.provider # last.selected) =>
               last.selectedFailed = last.selectedCalls /\ last.fallbackCalls = 1
          /\ last.threw =>
               last.selectedCalls = maxRetries /\ last.selectedFailed = maxRetries)
  /\ [][(last' # last /\ last'.op = "generate") =>
          /\ completion' = NoCompletion
          /\ last'.selectedCalls = completion.selectedCalls
          /\ last'.fallbackCalls = completion.fallbackCalls]_vars
  /\ (completion.pc # "idle") ~> (completion.pc = "idle")

\* a completion returned by the selected provider on its third call, after
\* two failures and a failed call of the other provider
C28_Witness ==
  /\ completionRan /\ ~last.threw /\ last.provider = last.selected
  /\ last.selectedCalls = 3 /\ last.selectedFailed = 2 /\ last.fallbackCalls = 1

\* C29: whatever maxRetries >= 1 is, a generateCompletion call that throws
\* because every call of the selected provider failed, while the other
\* provider was marked available, has called the other provider.
C29_FallbackBeforeThrow ==
  (completionRan /\ last.threw /\ last.otherAtStart /\ last.otherAtEnd) =>
    last.fallbackCalls >= 1

\* C30: selectBestProvider returns a provider whose client is configured
\* whenever a client is configured, one that is marked available if there
\* is one, and throws only when no client is configured.
C30_SelectsConfigured ==
  last.op = "select" =>
    IF \E n \in ProviderNames : providers[n]
    THEN /\ ~last.threw
         /\ providers[last.provider]
         /\ (\E n \in ProviderNames : providerHealth[n].available) =>
              providerHealth[last.provider].available
    ELSE last.threw

====
